---- MODULE Spec2Model ----
(***************************************************************************)
(* Model of the vroom user-space NVMe driver (src/src/*.rs) together with  *)
(* the controller it drives.  The host side follows queues.rs,             *)
(* queue_pairs.rs, prp.rs and nvme.rs; the controller side is an NVMe      *)
(* controller that consumes each submission queue in order and posts one   *)
(* completion entry per command.                                           *)
(***************************************************************************)
EXTENDS Integers, Sequences, FiniteSets, TLC

(***************************************************************************)
(* Bounds of the model.                                                    *)
(***************************************************************************)
\* number of API calls started in one behaviour of Spec and of SpecAdmin
MaxCalls == 4
\* number of API calls started in one behaviour of SpecIo
MaxIoCalls == 3
\* number of raw ring submissions in one behaviour of SpecRing
MaxRingOps == 7
\* CAP.MQES + 1 as reported by the controller (capacity of the admin rings)
MaxQueueEntries == 3
\* min(NSQA, NCQA) as reported by Get Features
MaxIoQueuePairs == 2

(***************************************************************************)
(* Program constants.                                                      *)
(***************************************************************************)
U16 == 65536
HUGE_PAGE_SIZE == 2097152
PageSize == 4096
\* byte offsets of the registers in the MMIO window, and of the first doorbell
CAP == 0
CC == 20
CSTS == 28
AQA == 36
ASQ == 40
ACQ == 48
DoorbellBase == 4096
\* the status codes the controller posts: success, and the 0x0181 >> 1 of a
\* command it fails
StatusCodes == {0, 192}
\* distance, in blocks, between the LBA areas used by different queue pairs
LbaStride == 16 * U16

maximum_queue_entries_supported == MaxQueueEntries
maximum_number_of_io_queue_pairs == MaxIoQueuePairs

Q == 0..maximum_number_of_io_queue_pairs
IoIds == 1..maximum_number_of_io_queue_pairs

VARIABLES
    maximum_transfer_size, \* ControllerInformation.maximum_transfer_size
    io_queue_pair_ids,     \* NvmeDevice.io_queue_pair_ids (a Vec)
    handles,               \* ids of the IoQueuePair values the client owns
    submission,            \* [Q -> SubmissionQueue {head, tail, len}]
    completion,            \* [Q -> CompletionQueue {head, phase, len}]
    sq_mem,                \* [Q -> DMA memory of the submission ring]
    cq_mem,                \* [Q -> DMA memory of the completion ring]
    doorbell,              \* MMIO doorbell registers SQyTDBL / CQyHDBL
    ctrl,                  \* queues as the controller holds them
    store,                 \* blocks stored by the controller, per LBA area
    allocated,             \* allocate calls minus deallocate calls, by owner
    pc,                    \* position of each client thread
    call,                  \* the call in progress in each thread
    result,                \* what the last call of each thread returned
    src,                   \* buffer of the last successful write of a thread
    dest,                  \* buffer filled by the last read of a thread
    calls,                 \* number of calls started
    completions,           \* successful complete() calls of each completion queue
    regs,                  \* the MMIO window: its length, the CAP fields, and the
                           \* registers CC.EN, CSTS.RDY, ASQ, ACQ, AQA
    namespace              \* IoQueuePair.namespace of each handle (its id)

vars == <<maximum_transfer_size, io_queue_pair_ids, handles, submission,
          completion, sq_mem, cq_mem, doorbell, ctrl, store, allocated,
          pc, call, result, src, dest, calls, completions, regs, namespace>>

(***************************************************************************)
(* Helpers.                                                                *)
(***************************************************************************)
DivCeil(a, b) == (a + b - 1) \div b

Range(s) == {s[i] : i \in 1..Len(s)}

Zeroed(n, v) == [i \in 1..n |-> v]

\* Vec::remove(index), index counted from 0
VecRemove_mut_first(s, index) == Tail(s)
VecRemove(s, index) == [i \in 1..(Len(s) - 1) |-> IF i <= index THEN s[i] ELSE s[i + 1]]

\* Iterator::position, counted from 0; -1 stands for None
Position(s, x) ==
    IF x \in Range(s) THEN (CHOOSE i \in 1..Len(s) : s[i] = x /\ \A j \in 1..(i - 1) : s[j] # x) - 1
    ELSE -1

(***************************************************************************)
(* nvme.rs: the namespaces NvmeDevice::new finds.  Namespace 1 reports a   *)
(* 512-byte LBA format; namespace 3 reports an LBADS below 9.              *)
(***************************************************************************)
Namespaces == {1, 3}
lba_data_size(ns) == IF ns = 1 THEN 9 ELSE 8
\* Namespace.block_size as new() records it
block_size(ns) == IF lba_data_size(ns) \in 9..31 THEN 2 ^ lba_data_size(ns) ELSE 0
BlockSize == block_size(1)

(***************************************************************************)
(* Data.  A buffer is described by the contents of the block ranges        *)
(* [0,1), [1,32), [32,4096), [4096,65537); all transfer lengths of the     *)
(* model end on one of these boundaries.  A content is a tag: 0 is the     *)
(* zero-filled state of fresh memory and of an unwritten block.            *)
(***************************************************************************)
SegEnd == <<1, 32, 4096, 65537>>
NSeg == Len(SegEnd)
SegStart(s) == IF s = 1 THEN 0 ELSE SegEnd[s - 1]
Data == {1, 2}
Blank == [s \in 1..NSeg |-> 0]
\* the segments a buffer of len bytes reaches into
SegsOfBytes(len) == {s \in 1..NSeg : SegStart(s) * BlockSize < len}
\* the segments a transfer of n blocks covers
SegsOfBlocks(n) == {s \in 1..NSeg : SegEnd[s] <= n}
Filled(len, d) == [s \in 1..NSeg |-> IF s \in SegsOfBytes(len) THEN d ELSE 0]

(***************************************************************************)
(* queues.rs: SubmissionQueue                                              *)
(***************************************************************************)
NewSubmissionQueue(n) == [head |-> 0, tail |-> 0, len |-> n]

is_empty(sq) == sq.head = sq.tail

is_full_mut_empty(sq) == sq.head = sq.tail
is_full(sq) == sq.head = (sq.tail + 1) % sq.len

\* the queue after submit(); the value submit() returns is its tail
submit_mut_nowrap(sq) == [sq EXCEPT !.tail = sq.tail + 1]
submit(sq) == [sq EXCEPT !.tail = (sq.tail + 1) % sq.len]

\* the ring memory after submit(entry)
submit_slot(mem, sq, entry) == [mem EXCEPT ![sq.tail + 1] = entry]

(***************************************************************************)
(* queues.rs: CompletionQueue                                              *)
(***************************************************************************)
NewCompletionQueue(n) == [head |-> 0, phase |-> TRUE, len |-> n]

ZeroEntry == [sq_head |-> 0, sq_id |-> 0, command_id |-> 0, status |-> 0]

\* the entry complete() looks at
HeadEntry(cq, mem) == mem[cq.head + 1]

\* complete() returns Ok
complete_ok_mut_always(cq, mem) == TRUE
complete_ok(cq, mem) == ((HeadEntry(cq, mem).status % 2) = 1) = cq.phase

\* the queue after a successful complete(); it returns (head, entry, prev)
complete_mut_toggle_always(cq) ==
    [cq EXCEPT !.head = (cq.head + 1) % cq.len, !.phase = ~cq.phase]
complete(cq) ==
    LET head == (cq.head + 1) % cq.len
    IN [cq EXCEPT !.head = head,
                  !.phase = IF head = 0 THEN ~cq.phase ELSE cq.phase]

\* the queue complete_n(commands) hands to complete_spin()
complete_n_skip_mut_skip_all(cq, commands) ==
    LET head == cq.head + commands
    IN [cq EXCEPT !.head = head % cq.len,
                  !.phase = IF head >= cq.len THEN ~cq.phase ELSE cq.phase]
complete_n_skip(cq, commands) ==
    LET head == cq.head + commands - 1
    IN [cq EXCEPT !.head = head % cq.len,
                  !.phase = IF head >= cq.len THEN ~cq.phase ELSE cq.phase]

(***************************************************************************)
(* cmd.rs: the fields of NvmeCommand the controller of the model decodes   *)
(***************************************************************************)
NoCommand == [opcode |-> 0, command_id |-> 0, cdw10 |-> 0, cdw12 |-> 0]

create_io_completion_queue_mut_sq_first(command_id, queue_id, size) ==
    [opcode |-> 1, command_id |-> command_id, cdw10 |-> size * U16 + queue_id, cdw12 |-> 0]
create_io_completion_queue(command_id, queue_id, size) ==
    [opcode |-> 5, command_id |-> command_id, cdw10 |-> size * U16 + queue_id, cdw12 |-> 0]

create_io_submission_queue(command_id, queue_id, size) ==
    [opcode |-> 1, command_id |-> command_id, cdw10 |-> size * U16 + queue_id, cdw12 |-> 0]

delete_io_submission_queue(command_id, queue_id) ==
    [opcode |-> 0, command_id |-> command_id, cdw10 |-> queue_id, cdw12 |-> 0]

delete_io_completion_queue(command_id, queue_id) ==
    [opcode |-> 4, command_id |-> command_id, cdw10 |-> queue_id, cdw12 |-> 0]

io_read(command_id, logical_block_address, number_of_blocks) ==
    [opcode |-> 2, command_id |-> command_id, cdw10 |-> logical_block_address,
     cdw12 |-> number_of_blocks]

io_write(command_id, logical_block_address, number_of_blocks) ==
    [opcode |-> 1, command_id |-> command_id, cdw10 |-> logical_block_address,
     cdw12 |-> number_of_blocks]

(***************************************************************************)
(* prp.rs                                                                  *)
(***************************************************************************)
\* allocate(): the error it returns ("Ok" if none), the variant of the
\* PrpContainer it returns and the number of PRP list pages that container
\* owns.  A buffer spanning no page at all makes needed_number_of_pages - 1
\* underflow, which stops the program.
NoPrp == [err |-> "Ok", kind |-> "none", lists |-> 0]
Failed(err) == [NoPrp EXCEPT !.err = err]

prp_allocate_mut_full_lists(virt, size) ==
    LET needed_number_of_pages == DivCeil((virt % PageSize) + size, PageSize)
        prp_entries_per_page == PageSize \div 8
    IN  IF virt % 8 # 0 THEN Failed("VirtualAddressIsNotDwordAligned")
        ELSE IF needed_number_of_pages = 1 THEN [NoPrp EXCEPT !.kind = "One"]
        ELSE IF virt % PageSize # 0 THEN Failed("VirtualAddressIsNotPageAligned")
        ELSE IF needed_number_of_pages = 2 THEN [NoPrp EXCEPT !.kind = "Two"]
        ELSE IF needed_number_of_pages = 0 THEN Failed("panic")
        ELSE [NoPrp EXCEPT !.kind = "Multiple",
                           !.lists = DivCeil(needed_number_of_pages - 1, prp_entries_per_page)]
prp_allocate(virt, size) ==
    LET needed_number_of_pages == DivCeil((virt % PageSize) + size, PageSize)
        prp_entries_per_page == PageSize \div 8
    IN  IF virt % 8 # 0 THEN Failed("VirtualAddressIsNotDwordAligned")
        ELSE IF needed_number_of_pages = 1 THEN [NoPrp EXCEPT !.kind = "One"]
        ELSE IF virt % PageSize # 0 THEN Failed("VirtualAddressIsNotPageAligned")
        ELSE IF needed_number_of_pages = 2 THEN [NoPrp EXCEPT !.kind = "Two"]
        ELSE IF needed_number_of_pages = 0 THEN Failed("panic")
        ELSE [NoPrp EXCEPT !.kind = "Multiple",
                           !.lists = DivCeil(needed_number_of_pages - 1, prp_entries_per_page - 1)]

\* Allocator::translate_virtual_to_physical for a buffer that is contiguous
\* in physical memory, and the physical address of the i-th PRP list page a
\* call allocates, counted from 0
PhysicalOffset == 16 * HUGE_PAGE_SIZE
translate_virtual_to_physical(virtual_address) == virtual_address + PhysicalOffset
ListAddress(i) == (i + 1) * HUGE_PAGE_SIZE

\* the PrpContainer allocate() returns with Ok: prp_1() and prp_2() (0 for
\* None) and the contents of its prp_lists.  prp_2 is a *mut u64, so
\* prp_2.add(offset) is offset elements of 8 bytes further; the inner loop
\* fills every entry of a list page but the last; fresh list memory is zero.
NoContainer == [prp_1 |-> 0, prp_2 |-> 0, prp_lists |-> <<>>]
prp_container(virt, size) ==
    LET a == prp_allocate(virt, size)
        prp_1 == translate_virtual_to_physical(virt)
        prp_2 == translate_virtual_to_physical(virt + PageSize)
        prp_entries_per_page == PageSize \div 8
        entry(i, j) == prp_2 + 8 * ((i * (prp_entries_per_page - 1) + j) * PageSize)
    IN  IF a.err # "Ok" THEN NoContainer
        ELSE [prp_1 |-> prp_1,
              prp_2 |-> IF a.kind = "Two" THEN prp_2
                        ELSE IF a.kind = "Multiple" THEN ListAddress(0)
                        ELSE 0,
              prp_lists |-> [i \in 1..a.lists |->
                               [j \in 1..prp_entries_per_page |->
                                  IF j < prp_entries_per_page THEN entry(i - 1, j - 1)
                                  ELSE IF i < a.lists THEN ListAddress(i)
                                  ELSE 0]]]

(***************************************************************************)
(* huge_pages.rs: length of the region HugePageAllocator::allocate returns *)
(***************************************************************************)
HugeLen(size) ==
    IF size % HUGE_PAGE_SIZE # 0
    THEN ((size \div HUGE_PAGE_SIZE) + 1) * HUGE_PAGE_SIZE
    ELSE size

(***************************************************************************)
(* queue_pairs.rs: doorbell registers, named by their index in units of    *)
(* the doorbell stride                                                     *)
(***************************************************************************)
SQyTDBL(y) == 2 * y
CQyHDBL(y) == 2 * y + 1
Doorbells == 0..(2 * maximum_number_of_io_queue_pairs + 1)

(***************************************************************************)
(* nvme.rs: the MMIO window and what NvmeDevice::new checks before it      *)
(* touches the controller                                                  *)
(***************************************************************************)
\* the window and the CAP fields of the specifications that start from a
\* constructed device: NCSS set, pages of 2^12 to 2^16 bytes, stride 0
WindowLength == 4 * PageSize
Cap == [ncss |-> 1, mpsmin |-> 0, mpsmax |-> 4, dstrd |-> 0]

\* `4 << doorbell_stride` of queue_pairs.rs 266 and 278: the operands of the
\* product it is a factor of are u16, so it is a u16; a shift by less than
\* 16 is not an overflow, the bits shifted out are lost
Shl16(doorbell_stride) == (4 * (2 ^ doorbell_stride)) % U16

\* whether the u16 arithmetic of the doorbell functions overflows for the
\* doorbell with this index (2 * queue_id, or 2 * queue_id + 1)
DoorbellOverflows(doorbell_stride, index) ==
    index >= U16 \/ Shl16(doorbell_stride) * index >= U16

\* set_submission_queue_tail_doorbell / set_completion_queue_head_doorbell:
\* the byte offset from the base they write, in a build that wraps
WrittenOffset(doorbell_stride, index) ==
    DoorbellBase + ((Shl16(doorbell_stride) * (index % U16)) % U16)

\* nvme.rs 434 and 455-457: the offset create_io_queue_pair computes; the
\* index is a u16, the shift and the product are usize
StoredOffset(doorbell_stride, index) ==
    DoorbellBase + (4 * (2 ^ doorbell_stride)) * (index % U16)

\* byte offset of doorbell r in the window
DoorbellOffset(r) == WrittenOffset(regs.cap.dstrd, r)

\* get_register_32/64 and set_register_32/64: the test is
\* `register > length - width` in usize.  With length < width the
\* subtraction overflows: a build with overflow checks stops the program,
\* one without wraps to a huge value and the access goes through.
RegisterOutcomes(register, width) ==
    IF regs.length < width THEN {"panic", "Ok"}
    ELSE IF register > regs.length - width THEN {"MemoryAccessOutOfBounds"}
    ELSE {"Ok"}

\* nvme.rs 434-438: create_io_queue_pair asserts that the head doorbell of
\* the new pair lies in the window, with the same `length - 4`
DoorbellAsserted(queue_id) ==
    IF regs.length < 4 THEN {"panic", "Ok"}
    ELSE IF StoredOffset(regs.cap.dstrd, CQyHDBL(queue_id)) > regs.length - 4 THEN {"panic"}
    ELSE {"Ok"}

RECURSIVE count_ones(_)
count_ones(n) == IF n = 0 THEN 0 ELSE (n % 2) + count_ones(n \div 2)

\* nvme.rs 143-161: the page_size checks, in the order of the code
PageSizeChecked_mut_no_power_check(page_size, minimum_memory_page_size, maximum_memory_page_size) ==
    IF page_size < 2 ^ 12 THEN "PageSizeLessThanNvmeMinimum"
    ELSE IF page_size > 2 ^ 28 THEN "PageSizeMoreThanNvmeMaximum"
    ELSE IF page_size < minimum_memory_page_size THEN "PageSizeLessThanControllerMinimum"
    ELSE IF page_size > maximum_memory_page_size THEN "PageSizeMoreThanControllerMaximum"
    ELSE "Ok"
PageSizeChecked(page_size, minimum_memory_page_size, maximum_memory_page_size) ==
    IF page_size < 2 ^ 12 THEN "PageSizeLessThanNvmeMinimum"
    ELSE IF page_size > 2 ^ 28 THEN "PageSizeMoreThanNvmeMaximum"
    ELSE IF page_size < minimum_memory_page_size THEN "PageSizeLessThanControllerMinimum"
    ELSE IF page_size > maximum_memory_page_size THEN "PageSizeMoreThanControllerMaximum"
    ELSE IF count_ones(page_size) # 1 THEN "PageSizeNotAPowerOfTwo"
    ELSE "Ok"

\* nvme.rs 105-161: CAP decoded and checked, then page_size
minimum_memory_page_size == 2 ^ (regs.cap.mpsmin + 12)
maximum_memory_page_size == 2 ^ (regs.cap.mpsmax + 12)
NewChecked(page_size) ==
    IF maximum_queue_entries_supported = 1 THEN "MaximumQueueEntriesSupportedInvalidlyZero"
    ELSE IF regs.cap.ncss = 0 THEN "NvmCommandSetNotSupported"
    ELSE IF minimum_memory_page_size > maximum_memory_page_size
         THEN "MemoryPageSizeMinimumBiggerThanMaximum"
    ELSE PageSizeChecked(page_size, minimum_memory_page_size, maximum_memory_page_size)

\* `blocks as u16 - 1` of read() and write(), as a build without overflow
\* checks computes it
NumberOfBlocksField(blocks) == ((blocks % U16) + U16 - 1) % U16

\* whether the build checks arithmetic overflow, where it matters: with the
\* checks, `blocks as u16 - 1` stops the program when blocks as u16 is 0
OverflowChecks(blocks) == IF blocks % U16 = 0 THEN BOOLEAN ELSE {FALSE}

\* the checks read() and write() make before they build the command
\* for a queue pair whose namespace has block size bs; the remainder by a
\* block size of 0 stops the program
Checked_mut_page_multiple(bs, len, virt) ==
    IF len > maximum_transfer_size
    THEN Failed("BufferLengthBiggerThanMaximumTransferSize")
    ELSE IF bs = 0
    THEN Failed("panic")
    ELSE IF len % PageSize # 0
    THEN Failed("BufferLengthNotAMultipleOfNamespaceBlockSize")
    ELSE prp_allocate(virt, len)
Checked(bs, len, virt) ==
    IF len > maximum_transfer_size
    THEN Failed("BufferLengthBiggerThanMaximumTransferSize")
    ELSE IF bs = 0
    THEN Failed("panic")
    ELSE IF len % bs # 0
    THEN Failed("BufferLengthNotAMultipleOfNamespaceBlockSize")
    ELSE prp_allocate(virt, len)

(***************************************************************************)
(* The client.  Thread 0 owns the NvmeDevice, thread q the IoQueuePair     *)
(* with id q.  Each queue pair works on its own LBA area.                  *)
(***************************************************************************)
LbaOf(q) == q * LbaStride
Aligned == 2 * HUGE_PAGE_SIZE
\* the buffers the client passes to read() and write(): [virt, len]
MainBuffers ==
    { [virt |-> Aligned, len |-> BlockSize],
      [virt |-> Aligned, len |-> 4 * PageSize] }
Buffers ==
    { [virt |-> Aligned, len |-> BlockSize],
      [virt |-> Aligned, len |-> 4 * PageSize],
      [virt |-> Aligned, len |-> 65537 * BlockSize],
      [virt |-> Aligned, len |-> BlockSize - 1],
      [virt |-> Aligned, len |-> maximum_transfer_size],
      [virt |-> Aligned, len |-> maximum_transfer_size + 1],
      [virt |-> Aligned + 2, len |-> BlockSize],
      [virt |-> Aligned + BlockSize, len |-> PageSize] }
\* the lengths of the slices the client passes to the _copied calls
CopiedLens == {13, maximum_transfer_size + 1}

NoCall == [op |-> "none", step |-> 0, queue_id |-> 0, namespace_id |-> 0, n |-> 0, virt |-> 0,
           len |-> 0, prp |-> "none", lists |-> 0, container |-> NoContainer,
           data |-> 0, buffer |-> Blank]
NoResult == [op |-> "none", err |-> "none", value |-> 0, len |-> 0]
Absent == [head |-> 0, tail |-> 0, len |-> 0]
AbsentCq == [head |-> 0, phase |-> TRUE, len |-> 0]
NoSrc == [len |-> 0, data |-> 0]

Returned(op, err, value, len) == [op |-> op, err |-> err, value |-> value, len |-> len]

(***************************************************************************)
(* The controller.                                                         *)
(***************************************************************************)
NoCtrlSq == [exists |-> FALSE, head |-> 0, len |-> 0]
NoCtrlCq == [exists |-> FALSE, tail |-> 0, phase |-> 1, len |-> 0]

\* the completion entry the controller posts for cmd of queue y
Posted(y, cmd, sc) ==
    [sq_head |-> (ctrl.sq[y].head + 1) % ctrl.sq[y].len,
     sq_id |-> y,
     command_id |-> cmd.command_id,
     status |-> sc * 2 + ctrl.cq[y].phase]

\* the controller's queues y after it has consumed one command and posted
\* its completion
Consumed(c, y) ==
    LET tail == (c.cq[y].tail + 1) % c.cq[y].len
    IN [c EXCEPT !.sq[y].head = (c.sq[y].head + 1) % c.sq[y].len,
                 !.cq[y].tail = tail,
                 !.cq[y].phase = IF tail = 0 THEN 1 - c.cq[y].phase ELSE c.cq[y].phase]

\* queue y holds a command and a free completion slot
CtrlReady(y) ==
    /\ ctrl.sq[y].exists /\ ctrl.cq[y].exists
    /\ ctrl.sq[y].head # doorbell[SQyTDBL(y)]
    /\ (ctrl.cq[y].tail + 1) % ctrl.cq[y].len # doorbell[CQyHDBL(y)]

\* what an admin command does to the controller's queues when it succeeds
AdminLegal(cmd) ==
    LET qid == cmd.cdw10 % U16
    IN \/ cmd.opcode \in {6, 10}
       \/ /\ qid \in IoIds
          /\ CASE cmd.opcode = 5 -> ~ctrl.cq[qid].exists
               [] cmd.opcode = 1 -> ctrl.cq[qid].exists /\ ~ctrl.sq[qid].exists
               [] cmd.opcode = 0 -> ctrl.sq[qid].exists
               [] cmd.opcode = 4 -> ctrl.cq[qid].exists /\ ~ctrl.sq[qid].exists
               [] OTHER -> FALSE

AdminEffect(c, cmd) ==
    LET qid == cmd.cdw10 % U16
        size == (cmd.cdw10 \div U16) + 1
    IN CASE cmd.opcode = 5 ->
              [c EXCEPT !.cq[qid] = [exists |-> TRUE, tail |-> 0, phase |-> 1, len |-> size]]
         [] cmd.opcode = 1 ->
              [c EXCEPT !.sq[qid] = [exists |-> TRUE, head |-> 0, len |-> size]]
         [] cmd.opcode = 0 -> [c EXCEPT !.sq[qid] = NoCtrlSq]
         [] cmd.opcode = 4 -> [c EXCEPT !.cq[qid] = NoCtrlCq]
         [] OTHER -> c

\* The controller executes the admin command at the head of SQ 0.  It may
\* fail any command; it fails every command it cannot execute.
CtrlAdmin ==
    /\ CtrlReady(0)
    /\ LET cmd == sq_mem[0][ctrl.sq[0].head + 1]
           qid == cmd.cdw10 % U16
       IN \E sc \in StatusCodes :
            /\ sc = 0 => AdminLegal(cmd)
            /\ cq_mem' = [cq_mem EXCEPT ![0][ctrl.cq[0].tail + 1] = Posted(0, cmd, sc)]
            /\ ctrl' = Consumed(IF sc = 0 THEN AdminEffect(ctrl, cmd) ELSE ctrl, 0)
            /\ doorbell' = IF sc = 0 /\ cmd.opcode = 5 THEN [doorbell EXCEPT ![CQyHDBL(qid)] = 0]
                           ELSE IF sc = 0 /\ cmd.opcode = 1 THEN [doorbell EXCEPT ![SQyTDBL(qid)] = 0]
                           ELSE doorbell
    /\ UNCHANGED <<maximum_transfer_size, regs, namespace, io_queue_pair_ids, handles, submission,
                   completion, sq_mem, store, allocated, pc, call, result, src,
                   dest, calls, completions>>

\* The controller executes the read or write at the head of I/O SQ q: it
\* moves cdw12 + 1 blocks between the LBA area and the buffer of the command.
CtrlIo(q) ==
    /\ CtrlReady(q)
    /\ LET cmd == sq_mem[q][ctrl.sq[q].head + 1]
           area == cmd.cdw10 \div LbaStride
           segs == SegsOfBlocks(cmd.cdw12 + 1)
       IN \E sc \in StatusCodes :
            /\ sc = 0 => area \in IoIds
            /\ cq_mem' = [cq_mem EXCEPT ![q][ctrl.cq[q].tail + 1] = Posted(q, cmd, sc)]
            /\ ctrl' = Consumed(ctrl, q)
            /\ store' = IF sc = 0 /\ cmd.opcode = 1
                        THEN [store EXCEPT ![area] =
                                [s \in 1..NSeg |-> IF s \in segs THEN call[q].buffer[s] ELSE @[s]]]
                        ELSE store
            /\ call' = IF sc = 0 /\ cmd.opcode = 2
                       THEN [call EXCEPT ![q].buffer =
                                [s \in 1..NSeg |-> IF s \in segs THEN store[area][s] ELSE @[s]]]
                       ELSE call
    /\ UNCHANGED <<maximum_transfer_size, regs, namespace, io_queue_pair_ids, handles, submission,
                   completion, sq_mem, doorbell, allocated, pc, result, src, dest,
                   calls, completions>>

(***************************************************************************)
(* queue_pairs.rs: AdminQueuePair::submit_and_complete, in its two halves: *)
(* up to the tail doorbell, and from the reaped completion on.             *)
(***************************************************************************)
AdminCid == submission[0].tail % U16

\* complete_spin() of the admin completion queue returns
AdminReaped == complete_ok(completion[0], cq_mem[0])
AdminEntry == HeadEntry(completion[0], cq_mem[0])
AdminStatus_mut_raw == AdminEntry.status
AdminStatus == AdminEntry.status \div 2

\* the admin rings and doorbells after the first half, for command cmd
AdminSubmitSq(cmd) == [submission EXCEPT ![0] = submit(@)]
AdminSubmitMem(cmd) == [sq_mem EXCEPT ![0] = submit_slot(@, submission[0], cmd)]
AdminSubmitDoorbell(d) == [d EXCEPT ![SQyTDBL(0)] = submit(submission[0]).tail]

\* the admin completion queue and its doorbell after the second half
AdminCompleteCq == [completion EXCEPT ![0] = complete(@)]
AdminCompleteDoorbell == [doorbell EXCEPT ![CQyHDBL(0)] = complete(completion[0]).head]
AdminCompleteCount == [completions EXCEPT ![0] = @ + 1]

(***************************************************************************)
(* nvme.rs: NvmeDevice::create_io_queue_pair                               *)
(***************************************************************************)
FreeIds == {i \in IoIds : i \notin Range(io_queue_pair_ids)}

\* the id the loop over 1..=maximum_number_of_io_queue_pairs stops at; 0 for None
LowestFree_mut_highest == IF FreeIds = {} THEN 0 ELSE CHOOSE i \in FreeIds : \A j \in FreeIds : j <= i
LowestFree == IF FreeIds = {} THEN 0 ELSE CHOOSE i \in FreeIds : \A j \in FreeIds : i <= j

\* the error of the checks made before anything is allocated, or "Ok"
CreateChecked_mut_below_maximum(namespace_id, number_of_queue_entries) ==
    IF number_of_queue_entries < 2 THEN "NumberOfQueueEntriesLessThanTwo"
    ELSE IF number_of_queue_entries >= maximum_queue_entries_supported
    THEN "NumberOfQueueEntriesMoreThanMaximum"
    ELSE IF namespace_id \notin Namespaces THEN "NamespaceDoesNotExist"
    ELSE IF LowestFree = 0 THEN "MaximumNumberOfQueuesReached"
    ELSE "Ok"
CreateChecked(namespace_id, number_of_queue_entries) ==
    IF number_of_queue_entries < 2 THEN "NumberOfQueueEntriesLessThanTwo"
    ELSE IF number_of_queue_entries > maximum_queue_entries_supported
    THEN "NumberOfQueueEntriesMoreThanMaximum"
    ELSE IF namespace_id \notin Namespaces THEN "NamespaceDoesNotExist"
    ELSE IF LowestFree = 0 THEN "MaximumNumberOfQueuesReached"
    ELSE "Ok"

\* up to the tail doorbell of Create I/O Completion Queue
CreateIoQueuePair_mut_allocate_first(namespace_id, number_of_queue_entries) ==
    /\ pc[0] = "idle"
    /\ calls' = calls + 1
    /\ LET err == CreateChecked(namespace_id, number_of_queue_entries)
           queue_id == LowestFree
           n == number_of_queue_entries
       IN IF err # "Ok"
          THEN /\ result' = [result EXCEPT ![0] = Returned("create", err, 0, 0)]
               /\ allocated' = [allocated EXCEPT !.queue[queue_id] = @ + 1]
               /\ UNCHANGED <<submission, completion, sq_mem, cq_mem, doorbell,
                              pc, call>>
          ELSE \E asserted \in DoorbellAsserted(queue_id) :
           IF asserted # "Ok"
          THEN /\ result' = [result EXCEPT ![0] = Returned("create", asserted, 0, 0)]
               /\ pc' = [pc EXCEPT ![0] = "panicked"]
               /\ UNCHANGED <<submission, completion, sq_mem, cq_mem, doorbell,
                              allocated, call>>
          ELSE /\ completion' = [completion EXCEPT ![queue_id] = NewCompletionQueue(n)]
               /\ cq_mem' = [cq_mem EXCEPT ![queue_id] = Zeroed(n, ZeroEntry)]
               /\ allocated' = [allocated EXCEPT !.queue[queue_id] = @ + 1]
               /\ LET cmd == create_io_completion_queue(AdminCid, queue_id, n - 1)
                  IN /\ submission' = AdminSubmitSq(cmd)
                     /\ sq_mem' = AdminSubmitMem(cmd)
                     /\ doorbell' = AdminSubmitDoorbell(doorbell)
               /\ pc' = [pc EXCEPT ![0] = "create_cq"]
               /\ call' = [call EXCEPT ![0] = [NoCall EXCEPT !.op = "create",
                                                !.queue_id = queue_id,
                                                !.namespace_id = namespace_id, !.n = n]]
               /\ UNCHANGED result
    /\ UNCHANGED <<maximum_transfer_size, regs, namespace, io_queue_pair_ids, handles, ctrl, store,
                   src, dest, completions>>
CreateIoQueuePair(namespace_id, number_of_queue_entries) ==
    /\ pc[0] = "idle"
    /\ calls' = calls + 1
    /\ LET err == CreateChecked(namespace_id, number_of_queue_entries)
           queue_id == LowestFree
           n == number_of_queue_entries
       IN IF err # "Ok"
          THEN /\ result' = [result EXCEPT ![0] = Returned("create", err, 0, 0)]
               /\ UNCHANGED <<submission, completion, sq_mem, cq_mem, doorbell,
                              allocated, pc, call>>
          ELSE \E asserted \in DoorbellAsserted(queue_id) :
           IF asserted # "Ok"
          THEN /\ result' = [result EXCEPT ![0] = Returned("create", asserted, 0, 0)]
               /\ pc' = [pc EXCEPT ![0] = "panicked"]
               /\ UNCHANGED <<submission, completion, sq_mem, cq_mem, doorbell,
                              allocated, call>>
          ELSE /\ completion' = [completion EXCEPT ![queue_id] = NewCompletionQueue(n)]
               /\ cq_mem' = [cq_mem EXCEPT ![queue_id] = Zeroed(n, ZeroEntry)]
               /\ allocated' = [allocated EXCEPT !.queue[queue_id] = @ + 1]
               /\ LET cmd == create_io_completion_queue(AdminCid, queue_id, n - 1)
                  IN /\ submission' = AdminSubmitSq(cmd)
                     /\ sq_mem' = AdminSubmitMem(cmd)
                     /\ doorbell' = AdminSubmitDoorbell(doorbell)
               /\ pc' = [pc EXCEPT ![0] = "create_cq"]
               /\ call' = [call EXCEPT ![0] = [NoCall EXCEPT !.op = "create",
                                                !.queue_id = queue_id,
                                                !.namespace_id = namespace_id, !.n = n]]
               /\ UNCHANGED result
    /\ UNCHANGED <<maximum_transfer_size, regs, namespace, io_queue_pair_ids, handles, ctrl, store,
                   src, dest, completions>>

\* from the completion of Create CQ to the tail doorbell of Create SQ
CreateCqDone ==
    /\ pc[0] = "create_cq"
    /\ AdminReaped
    /\ completions' = AdminCompleteCount
    /\ LET queue_id == call[0].queue_id
           n == call[0].n
       IN IF AdminStatus # 0
          THEN /\ result' = [result EXCEPT ![0] =
                                Returned("create", "IoCompletionQueueFailure", AdminStatus, 0)]
               /\ completion' = [AdminCompleteCq EXCEPT ![queue_id] = AbsentCq]
               /\ cq_mem' = [cq_mem EXCEPT ![queue_id] = <<>>]
               /\ doorbell' = AdminCompleteDoorbell
               /\ pc' = [pc EXCEPT ![0] = "idle"]
               /\ call' = [call EXCEPT ![0] = NoCall]
               /\ UNCHANGED <<submission, sq_mem, allocated>>
          ELSE /\ completion' = AdminCompleteCq
               /\ allocated' = [allocated EXCEPT !.queue[queue_id] = @ + 1]
               /\ LET cmd == create_io_submission_queue(AdminCid, queue_id, n - 1)
                  IN /\ submission' = [AdminSubmitSq(cmd) EXCEPT ![queue_id] = NewSubmissionQueue(n)]
                     /\ sq_mem' = [AdminSubmitMem(cmd) EXCEPT ![queue_id] = Zeroed(n, NoCommand)]
                     /\ doorbell' = AdminSubmitDoorbell(AdminCompleteDoorbell)
               /\ pc' = [pc EXCEPT ![0] = "create_sq"]
               /\ UNCHANGED <<result, cq_mem, call>>
    /\ UNCHANGED <<maximum_transfer_size, regs, namespace, io_queue_pair_ids, handles, ctrl, store,
                   src, dest, calls>>

\* from the completion of Create SQ to the return
CreateSqDone ==
    /\ pc[0] = "create_sq"
    /\ AdminReaped
    /\ completions' = AdminCompleteCount
    /\ doorbell' = AdminCompleteDoorbell
    /\ pc' = [pc EXCEPT ![0] = "idle"]
    /\ call' = [call EXCEPT ![0] = NoCall]
    /\ LET queue_id == call[0].queue_id
       IN IF AdminStatus # 0
          THEN /\ result' = [result EXCEPT ![0] =
                                Returned("create", "IoCompletionQueueFailure", AdminStatus, 0)]
               /\ completion' = [AdminCompleteCq EXCEPT ![queue_id] = AbsentCq]
               /\ submission' = [submission EXCEPT ![queue_id] = Absent]
               /\ cq_mem' = [cq_mem EXCEPT ![queue_id] = <<>>]
               /\ sq_mem' = [sq_mem EXCEPT ![queue_id] = <<>>]
               /\ UNCHANGED <<io_queue_pair_ids, handles, namespace>>
          ELSE /\ result' = [result EXCEPT ![0] = Returned("create", "Ok", queue_id, 0)]
               /\ completion' = AdminCompleteCq
               /\ io_queue_pair_ids' = Append(io_queue_pair_ids, queue_id)
               /\ handles' = handles \cup {queue_id}
               /\ namespace' = [namespace EXCEPT ![queue_id] = call[0].namespace_id]
               /\ UNCHANGED <<submission, cq_mem, sq_mem>>
    /\ UNCHANGED <<maximum_transfer_size, regs, ctrl, store, allocated, src, dest, calls>>

(***************************************************************************)
(* nvme.rs: NvmeDevice::delete_io_queue_pair.  The call takes the          *)
(* IoQueuePair by value and drops it when it returns; Dma has no Drop, so  *)
(* dropping it calls nothing.                                              *)
(***************************************************************************)
\* the client's state of queue pair q once its IoQueuePair is dropped
DroppedSq(f, q) == [f EXCEPT ![q] = Absent]
DroppedCq(f, q) == [f EXCEPT ![q] = AbsentCq]
DroppedMem(f, q) == [f EXCEPT ![q] = <<>>]

\* up to the tail doorbell of Delete I/O Submission Queue.  The IoQueuePair
\* is one this device created, or one with an id that is not live here,
\* created by another NvmeDevice of the program.
DeleteIoQueuePair(q) ==
    /\ pc[0] = "idle"
    /\ q \in handles \/ q \notin Range(io_queue_pair_ids)
    /\ pc[q] = "idle"
    /\ calls' = calls + 1
    /\ handles' = handles \ {q}
    /\ LET index == Position(io_queue_pair_ids, q)
       IN IF index < 0
          THEN /\ result' = [result EXCEPT ![0] = Returned("delete", "IoQueuePairDoesNotExist", q, 0),
                                           ![q] = NoResult]
               /\ submission' = DroppedSq(submission, q)
               /\ completion' = DroppedCq(completion, q)
               /\ sq_mem' = DroppedMem(sq_mem, q)
               /\ cq_mem' = DroppedMem(cq_mem, q)
               /\ completions' = [completions EXCEPT ![q] = 0]
               /\ namespace' = [namespace EXCEPT ![q] = 0]
               /\ UNCHANGED <<io_queue_pair_ids, doorbell, pc, call>>
          ELSE /\ io_queue_pair_ids' = VecRemove(io_queue_pair_ids, index)
               /\ LET cmd == delete_io_submission_queue(AdminCid, q)
                  IN /\ submission' = AdminSubmitSq(cmd)
                     /\ sq_mem' = AdminSubmitMem(cmd)
                     /\ doorbell' = AdminSubmitDoorbell(doorbell)
               /\ pc' = [pc EXCEPT ![0] = "delete_sq"]
               /\ call' = [call EXCEPT ![0] = [NoCall EXCEPT !.op = "delete", !.queue_id = q]]
               /\ UNCHANGED <<result, completion, cq_mem, completions, namespace>>
    /\ UNCHANGED <<maximum_transfer_size, regs, ctrl, store, allocated, src, dest>>

\* from the completion of Delete SQ to the tail doorbell of Delete CQ
DeleteSqDone ==
    /\ pc[0] = "delete_sq"
    /\ AdminReaped
    /\ LET q == call[0].queue_id
       IN IF AdminStatus # 0
          THEN /\ result' = [result EXCEPT ![0] =
                                Returned("delete", "IoCompletionQueueFailure", AdminStatus, 0),
                                           ![q] = NoResult]
               /\ submission' = DroppedSq(submission, q)
               /\ completion' = DroppedCq(AdminCompleteCq, q)
               /\ sq_mem' = DroppedMem(sq_mem, q)
               /\ cq_mem' = DroppedMem(cq_mem, q)
               /\ completions' = [AdminCompleteCount EXCEPT ![q] = 0]
               /\ namespace' = [namespace EXCEPT ![q] = 0]
               /\ doorbell' = AdminCompleteDoorbell
               /\ pc' = [pc EXCEPT ![0] = "idle"]
               /\ call' = [call EXCEPT ![0] = NoCall]
               /\ src' = [src EXCEPT ![q] = NoSrc]
               /\ dest' = [dest EXCEPT ![q] = Blank]
          ELSE /\ completion' = AdminCompleteCq
               /\ completions' = AdminCompleteCount
               /\ LET cmd == delete_io_completion_queue(AdminCid, q)
                  IN /\ submission' = AdminSubmitSq(cmd)
                     /\ sq_mem' = AdminSubmitMem(cmd)
                     /\ doorbell' = AdminSubmitDoorbell(AdminCompleteDoorbell)
               /\ pc' = [pc EXCEPT ![0] = "delete_cq"]
               /\ UNCHANGED <<result, cq_mem, call, src, dest, namespace>>
    /\ UNCHANGED <<maximum_transfer_size, regs, io_queue_pair_ids, handles, ctrl, store,
                   allocated, calls>>

\* from the completion of Delete CQ to the return
DeleteCqDone ==
    /\ pc[0] = "delete_cq"
    /\ AdminReaped
    /\ LET q == call[0].queue_id
       IN /\ result' = [result EXCEPT ![0] =
                          IF AdminStatus # 0
                          THEN Returned("delete", "IoCompletionQueueFailure", AdminStatus, 0)
                          ELSE Returned("delete", "Ok", q, 0),
                                      ![q] = NoResult]
          /\ submission' = DroppedSq(submission, q)
          /\ completion' = DroppedCq(AdminCompleteCq, q)
          /\ sq_mem' = DroppedMem(sq_mem, q)
          /\ cq_mem' = DroppedMem(cq_mem, q)
          /\ completions' = [AdminCompleteCount EXCEPT ![q] = 0]
          /\ namespace' = [namespace EXCEPT ![q] = 0]
          /\ src' = [src EXCEPT ![q] = NoSrc]
          /\ dest' = [dest EXCEPT ![q] = Blank]
    /\ doorbell' = AdminCompleteDoorbell
    /\ pc' = [pc EXCEPT ![0] = "idle"]
    /\ call' = [call EXCEPT ![0] = NoCall]
    /\ UNCHANGED <<maximum_transfer_size, regs, io_queue_pair_ids, handles, ctrl, store,
                   allocated, calls>>

(***************************************************************************)
(* nvme.rs: NvmeDevice::shutdown is todo!(): it stops the program          *)
(***************************************************************************)
Shutdown ==
    /\ pc[0] = "idle"
    /\ pc' = [pc EXCEPT ![0] = "panicked"]
    /\ result' = [result EXCEPT ![0] = Returned("shutdown", "panic", 0, 0)]
    /\ UNCHANGED <<maximum_transfer_size, regs, namespace, io_queue_pair_ids, handles, submission,
                   completion, sq_mem, cq_mem, doorbell, ctrl, store, allocated,
                   call, src, dest, calls, completions>>

(***************************************************************************)
(* queue_pairs.rs: IoQueuePair::read / write / read_copied / write_copied  *)
(***************************************************************************)
\* read() or write() of a buffer at virt of len bytes holding `buffer`, up
\* to the tail doorbell.  n > 0 is the length of the slice of a _copied
\* call, whose aligned buffer has just been allocated.
IoStart_mut_submit_first(q, op, virt, len, buffer, n, d) ==
    LET bs == block_size(namespace[q])
        c == Checked(bs, len, virt)
        blocks == IF bs = 0 THEN 0 ELSE len \div bs
        command_id == submission[q].tail % U16
        entry == IF op \in {"write", "write_copied"}
                 THEN io_write(command_id, LbaOf(q), NumberOfBlocksField(blocks))
                 ELSE io_read(command_id, LbaOf(q), NumberOfBlocksField(blocks))
    IN  /\ allocated' = [allocated EXCEPT !.copied[q] = @ + (IF n > 0 THEN 1 ELSE 0),
                                          !.prp[q] = @ + c.lists]
        /\ sq_mem' = [sq_mem EXCEPT ![q] = submit_slot(@, submission[q], entry)]
        /\ submission' = [submission EXCEPT ![q] = submit(@)]
        /\ doorbell' = [doorbell EXCEPT ![SQyTDBL(q)] = submit(submission[q]).tail]
        /\ IF c.err # "Ok"
           THEN /\ result' = [result EXCEPT ![q] = Returned(op, c.err, 0, len)]
                /\ UNCHANGED <<pc, call>>
           ELSE /\ call' = [call EXCEPT ![q] = [NoCall EXCEPT !.op = op, !.queue_id = q, !.n = n, !.virt = virt,
                                                          !.len = len, !.prp = c.kind,
                                               !.lists = c.lists, !.data = d, !.buffer = buffer]]
                /\ pc' = [pc EXCEPT ![q] = "wait"]
                /\ UNCHANGED result
IoStart(q, op, virt, len, buffer, n, d) ==
    LET bs == block_size(namespace[q])
        c == Checked(bs, len, virt)
        blocks == IF bs = 0 THEN 0 ELSE len \div bs
        command_id == submission[q].tail % U16
        entry == IF op \in {"write", "write_copied"}
                 THEN io_write(command_id, LbaOf(q), NumberOfBlocksField(blocks))
                 ELSE io_read(command_id, LbaOf(q), NumberOfBlocksField(blocks))
    IN  \E overflow_checks \in OverflowChecks(blocks) :
        IF c.err # "Ok"
        THEN /\ result' = [result EXCEPT ![q] = Returned(op, c.err, 0, len)]
             /\ pc' = IF c.err = "panic" THEN [pc EXCEPT ![q] = "panicked"] ELSE pc
             /\ allocated' = [allocated EXCEPT !.copied[q] = @ + (IF n > 0 THEN 1 ELSE 0)]
             /\ UNCHANGED <<submission, sq_mem, doorbell, call>>
        ELSE IF overflow_checks
        THEN /\ result' = [result EXCEPT ![q] = Returned(op, "panic", 0, len)]
             /\ pc' = [pc EXCEPT ![q] = "panicked"]
             /\ allocated' = [allocated EXCEPT !.copied[q] = @ + (IF n > 0 THEN 1 ELSE 0),
                                               !.prp[q] = @ + c.lists]
             /\ UNCHANGED <<submission, sq_mem, doorbell, call>>
        ELSE /\ allocated' = [allocated EXCEPT !.copied[q] = @ + (IF n > 0 THEN 1 ELSE 0),
                                               !.prp[q] = @ + c.lists]
             /\ sq_mem' = [sq_mem EXCEPT ![q] = submit_slot(@, submission[q], entry)]
             /\ submission' = [submission EXCEPT ![q] = submit(@)]
             /\ doorbell' = [doorbell EXCEPT ![SQyTDBL(q)] = submit(submission[q]).tail]
             /\ call' = [call EXCEPT ![q] = [NoCall EXCEPT !.op = op, !.queue_id = q, !.n = n, !.virt = virt,
                                                          !.len = len, !.prp = c.kind,
                                            !.lists = c.lists, !.data = d, !.buffer = buffer]]
             /\ pc' = [pc EXCEPT ![q] = "wait"]
             /\ UNCHANGED result

IoIdle(q) ==
    /\ q \in handles
    /\ pc[q] = "idle"
    /\ calls' = calls + 1

Write(q, b, d) ==
    /\ IoIdle(q)
    /\ IoStart(q, "write", b.virt, b.len, Filled(b.len, d), 0, d)
    /\ UNCHANGED <<maximum_transfer_size, regs, namespace, io_queue_pair_ids, handles, completion,
                   cq_mem, ctrl, store, src, dest, completions>>

Read(q, b) ==
    /\ IoIdle(q)
    /\ IoStart(q, "read", b.virt, b.len, Blank, 0, 0)
    /\ UNCHANGED <<maximum_transfer_size, regs, namespace, io_queue_pair_ids, handles, completion,
                   cq_mem, ctrl, store, src, dest, completions>>

\* the check the _copied calls make before they allocate the aligned buffer
CopiedChecked(n) ==
    IF n > maximum_transfer_size THEN "BufferLengthBiggerThanMaximumTransferSize" ELSE "Ok"

Copied(q, op, n, d) ==
    /\ IoIdle(q)
    /\ IF CopiedChecked(n) # "Ok"
       THEN /\ result' = [result EXCEPT ![q] = Returned(op, CopiedChecked(n), 0, n)]
            /\ UNCHANGED <<submission, sq_mem, doorbell, allocated, pc, call>>
       ELSE IoStart(q, op, Aligned, HugeLen(n), Filled(n, d), n, d)
    /\ UNCHANGED <<maximum_transfer_size, regs, namespace, io_queue_pair_ids, handles, completion,
                   cq_mem, ctrl, store, src, dest, completions>>

WriteCopied(q, n, d) == Copied(q, "write_copied", n, d)

ReadCopied(q, n) == Copied(q, "read_copied", n, 0)

\* complete_io(1) returns, and read() or write() with it
IoDone_mut_keep_sq_head(q) ==
    /\ pc[q] = "wait"
    /\ LET skipped == complete_n_skip(completion[q], 1)
           entry == HeadEntry(skipped, cq_mem[q])
           status == entry.status \div 2
           c == call[q]
       IN /\ complete_ok(skipped, cq_mem[q])
          /\ completion' = [completion EXCEPT ![q] = complete(skipped)]
          /\ completions' = [completions EXCEPT ![q] = @ + 1]
          /\ doorbell' = [doorbell EXCEPT ![CQyHDBL(q)] = complete(skipped).head]
          /\ UNCHANGED submission
          /\ IF status # 0
             THEN /\ result' = [result EXCEPT ![q] =
                                  Returned(c.op, "IoCompletionQueueFailure", status, c.len)]
                  /\ UNCHANGED <<allocated, src>>
                  /\ dest' = IF c.op = "read" THEN [dest EXCEPT ![q] = c.buffer] ELSE dest
             ELSE /\ result' = [result EXCEPT ![q] =
                                  Returned(c.op, "Ok", 0, IF c.n > 0 THEN c.n ELSE c.len)]
                  /\ allocated' = [allocated EXCEPT !.prp[q] = @ - c.lists]
                  /\ src' = IF c.op = "write" THEN [src EXCEPT ![q] = [len |-> c.len, data |-> c.data]]
                            ELSE IF c.op = "write_copied"
                            THEN [src EXCEPT ![q] = [len |-> c.n, data |-> c.data]]
                            ELSE src
                  /\ dest' = IF c.op = "read" THEN [dest EXCEPT ![q] = c.buffer]
                             ELSE IF c.op = "read_copied"
                             THEN [dest EXCEPT ![q] =
                                     [s \in 1..NSeg |-> IF s \in SegsOfBytes(c.n)
                                                        THEN c.buffer[s] ELSE 0]]
                             ELSE dest
    /\ pc' = [pc EXCEPT ![q] = "idle"]
    /\ call' = [call EXCEPT ![q] = NoCall]
    /\ UNCHANGED <<maximum_transfer_size, regs, namespace, io_queue_pair_ids, handles, sq_mem, cq_mem,
                   ctrl, store, calls>>
IoDone(q) ==
    /\ pc[q] = "wait"
    /\ LET skipped == complete_n_skip(completion[q], 1)
           entry == HeadEntry(skipped, cq_mem[q])
           status == entry.status \div 2
           c == call[q]
       IN /\ complete_ok(skipped, cq_mem[q])
          /\ completion' = [completion EXCEPT ![q] = complete(skipped)]
          /\ completions' = [completions EXCEPT ![q] = @ + 1]
          /\ doorbell' = [doorbell EXCEPT ![CQyHDBL(q)] = complete(skipped).head]
          /\ submission' = [submission EXCEPT ![q].head = entry.sq_head]
          /\ IF status # 0
             THEN /\ result' = [result EXCEPT ![q] =
                                  Returned(c.op, "IoCompletionQueueFailure", status, c.len)]
                  /\ UNCHANGED <<allocated, src>>
                  /\ dest' = IF c.op = "read" THEN [dest EXCEPT ![q] = c.buffer] ELSE dest
             ELSE /\ result' = [result EXCEPT ![q] =
                                  Returned(c.op, "Ok", 0, IF c.n > 0 THEN c.n ELSE c.len)]
                  /\ allocated' = [allocated EXCEPT !.prp[q] = @ - c.lists]
                  /\ src' = IF c.op = "write" THEN [src EXCEPT ![q] = [len |-> c.len, data |-> c.data]]
                            ELSE IF c.op = "write_copied"
                            THEN [src EXCEPT ![q] = [len |-> c.n, data |-> c.data]]
                            ELSE src
                  /\ dest' = IF c.op = "read" THEN [dest EXCEPT ![q] = c.buffer]
                             ELSE IF c.op = "read_copied"
                             THEN [dest EXCEPT ![q] =
                                     [s \in 1..NSeg |-> IF s \in SegsOfBytes(c.n)
                                                        THEN c.buffer[s] ELSE 0]]
                             ELSE dest
    /\ pc' = [pc EXCEPT ![q] = "idle"]
    /\ call' = [call EXCEPT ![q] = NoCall]
    /\ UNCHANGED <<maximum_transfer_size, regs, namespace, io_queue_pair_ids, handles, sq_mem, cq_mem,
                   ctrl, store, calls>>

\* quick_poll(): one complete(), no spinning
QuickPoll(q) ==
    /\ q \in handles
    /\ pc[q] = "idle"
    /\ LET entry == HeadEntry(completion[q], cq_mem[q])
           status == entry.status \div 2
       IN IF complete_ok(completion[q], cq_mem[q])
          THEN /\ completion' = [completion EXCEPT ![q] = complete(@)]
               /\ completions' = [completions EXCEPT ![q] = @ + 1]
               /\ doorbell' = [doorbell EXCEPT ![CQyHDBL(q)] = complete(completion[q]).head]
               /\ submission' = [submission EXCEPT ![q].head = entry.sq_head]
               /\ result' = [result EXCEPT ![q] =
                               IF status # 0
                               THEN Returned("quick_poll", "IoCompletionQueueFailure", status, 0)
                               ELSE Returned("quick_poll", "Ok", 0, 0)]
          ELSE /\ result' = [result EXCEPT ![q] =
                               Returned("quick_poll", "CompletionQueueCompletionFailure", 0, 0)]
               /\ UNCHANGED <<completion, completions, doorbell, submission>>
    /\ UNCHANGED <<maximum_transfer_size, regs, namespace, io_queue_pair_ids, handles, sq_mem, cq_mem,
                   ctrl, store, allocated, pc, call, src, dest, calls>>

(***************************************************************************)
(* The state NvmeDevice::new leaves: it has run Identify Controller, Get   *)
(* Features, Identify Namespace List and one Identify Namespace per        *)
(* namespace through the admin queue pair.                                 *)
(***************************************************************************)
InitCommands == 3 + Cardinality(Namespaces)

\* the k-th admin command of new(), as its closure builds it for the command
\* id submit_and_complete() passes; get_features() ignores its _command_id
NewCommand(k, cid) ==
    CASE k = 1 -> [opcode |-> 6, command_id |-> cid, cdw10 |-> 1, cdw12 |-> 0]
      [] k = 2 -> [opcode |-> 10, command_id |-> 0, cdw10 |-> 7, cdw12 |-> 0]
      [] k = 3 -> [opcode |-> 6, command_id |-> cid, cdw10 |-> 2, cdw12 |-> 0]
      [] OTHER -> [opcode |-> 6, command_id |-> cid, cdw10 |-> 0, cdw12 |-> 0]

\* the k-th admin command of new(), in the ring new() starts with
InitCommand(k) == NewCommand(k, (k - 1) % maximum_queue_entries_supported)

\* the last of the commands of new() that used ring slot i; 0 if none did
LastInSlot(i) ==
    LET ks == {k \in 1..InitCommands : (k - 1) % maximum_queue_entries_supported = i}
    IN IF ks = {} THEN 0 ELSE CHOOSE k \in ks : \A j \in ks : j <= k

InitAdminSqMem ==
    [i \in 1..maximum_queue_entries_supported |->
        IF LastInSlot(i - 1) = 0 THEN NoCommand ELSE InitCommand(LastInSlot(i - 1))]

InitAdminCqMem ==
    [i \in 1..maximum_queue_entries_supported |->
        LET k == LastInSlot(i - 1)
        IN IF k = 0 THEN ZeroEntry
           ELSE [sq_head |-> k % maximum_queue_entries_supported,
                 sq_id |-> 0,
                 command_id |-> InitCommand(k).command_id,
                 status |-> IF ((k - 1) \div maximum_queue_entries_supported) % 2 = 0 THEN 1 ELSE 0]]

InitPhase == (InitCommands \div maximum_queue_entries_supported) % 2 = 0

InitWith(mts) ==
    /\ maximum_transfer_size \in mts
    /\ io_queue_pair_ids = <<>>
    /\ handles = {}
    /\ submission = [q \in Q |-> IF q = 0
                                 THEN [head |-> 0,
                                       tail |-> InitCommands % maximum_queue_entries_supported,
                                       len |-> maximum_queue_entries_supported]
                                 ELSE Absent]
    /\ completion = [q \in Q |-> IF q = 0
                                 THEN [head |-> InitCommands % maximum_queue_entries_supported,
                                       phase |-> InitPhase,
                                       len |-> maximum_queue_entries_supported]
                                 ELSE AbsentCq]
    /\ sq_mem = [q \in Q |-> IF q = 0 THEN InitAdminSqMem ELSE <<>>]
    /\ cq_mem = [q \in Q |-> IF q = 0 THEN InitAdminCqMem ELSE <<>>]
    /\ doorbell = [r \in Doorbells |->
                     IF r \in {SQyTDBL(0), CQyHDBL(0)}
                     THEN InitCommands % maximum_queue_entries_supported ELSE 0]
    /\ ctrl = [sq |-> [q \in Q |-> IF q = 0
                                   THEN [exists |-> TRUE,
                                         head |-> InitCommands % maximum_queue_entries_supported,
                                         len |-> maximum_queue_entries_supported]
                                   ELSE NoCtrlSq],
               cq |-> [q \in Q |-> IF q = 0
                                   THEN [exists |-> TRUE,
                                         tail |-> InitCommands % maximum_queue_entries_supported,
                                         phase |-> IF InitPhase THEN 1 ELSE 0,
                                         len |-> maximum_queue_entries_supported]
                                   ELSE NoCtrlCq]]
    /\ store = [q \in IoIds |-> Blank]
    /\ allocated = [device |-> 3, queue |-> [q \in IoIds |-> 0],
                    prp |-> [q \in IoIds |-> 0], copied |-> [q \in IoIds |-> 0]]
    /\ pc = [q \in Q |-> "idle"]
    /\ call = [q \in Q |-> NoCall]
    /\ result = [q \in Q |-> NoResult]
    /\ src = [q \in IoIds |-> NoSrc]
    /\ dest = [q \in IoIds |-> Blank]
    /\ calls = 0
    /\ completions = [q \in Q |-> IF q = 0 THEN InitCommands ELSE 0]
    /\ regs = [length |-> WindowLength, cap |-> Cap,
               en |-> 1, rdy |-> 1, asq |-> "admin_sq", acq |-> "admin_cq",
               aqa |-> (maximum_queue_entries_supported - 1) * U16
                         + (maximum_queue_entries_supported - 1)]
    /\ namespace = [q \in IoIds |-> 0]

Init == InitWith({16384 * PageSize})

Next ==
    \/ \E ns \in {1, 2}, n \in 1..(maximum_queue_entries_supported + 1) :
            calls < MaxCalls /\ CreateIoQueuePair(ns, n)
    \/ CreateCqDone
    \/ CreateSqDone
    \/ \E q \in IoIds : calls < MaxCalls /\ DeleteIoQueuePair(q)
    \/ DeleteSqDone
    \/ DeleteCqDone
    \/ Shutdown
    \/ \E q \in IoIds, b \in MainBuffers : calls < MaxCalls /\ Write(q, b, 1)
    \/ \E q \in IoIds, b \in MainBuffers : calls < MaxCalls /\ Read(q, b)
    \/ \E q \in IoIds : calls < MaxCalls /\ WriteCopied(q, 13, 1)
    \/ \E q \in IoIds : calls < MaxCalls /\ ReadCopied(q, 13)
    \/ \E q \in IoIds : IoDone(q)
    \/ \E q \in IoIds : QuickPoll(q)
    \/ CtrlAdmin
    \/ \E q \in IoIds : CtrlIo(q)

Spec == Init /\ [][Next]_vars

(***************************************************************************)
(* SpecAdmin: the calls of NvmeDevice that go through the admin queue pair *)
(* alone.                                                                  *)
(***************************************************************************)
NextAdmin ==
    \/ \E ns \in {1, 2}, n \in 0..(maximum_queue_entries_supported + 2) :
            calls < MaxCalls /\ CreateIoQueuePair(ns, n)
    \/ CreateCqDone
    \/ CreateSqDone
    \/ \E q \in IoIds : calls < MaxCalls /\ DeleteIoQueuePair(q)
    \/ DeleteSqDone
    \/ DeleteCqDone
    \/ CtrlAdmin

SpecAdmin == Init /\ [][NextAdmin]_vars

(***************************************************************************)
(* SpecIo: one queue pair at a time and every kind of buffer the client    *)
(* can pass to it.                                                         *)
(***************************************************************************)
InitIo == InitWith({32 * PageSize, 16384 * PageSize})

NextIo ==
    \/ \E n \in 2..maximum_queue_entries_supported :
            calls < MaxIoCalls /\ handles = {} /\ CreateIoQueuePair(1, n)
    \/ CreateCqDone
    \/ CreateSqDone
    \/ \E q \in IoIds : calls < MaxIoCalls /\ DeleteIoQueuePair(q)
    \/ DeleteSqDone
    \/ DeleteCqDone
    \/ \E q \in IoIds, b \in MainBuffers, d \in Data : calls < MaxIoCalls /\ Write(q, b, d)
    \/ \E q \in IoIds, b \in Buffers \ MainBuffers : calls < MaxIoCalls /\ Write(q, b, 1)
    \/ \E q \in IoIds, b \in Buffers : calls < MaxIoCalls /\ Read(q, b)
    \/ \E q \in IoIds, n \in CopiedLens, d \in Data : calls < MaxIoCalls /\ WriteCopied(q, n, d)
    \/ \E q \in IoIds, n \in CopiedLens : calls < MaxIoCalls /\ ReadCopied(q, n)
    \/ \E q \in IoIds : IoDone(q)
    \/ \E q \in IoIds : QuickPoll(q)
    \/ CtrlAdmin
    \/ \E q \in IoIds : CtrlIo(q)

SpecIo == InitIo /\ [][NextIo]_vars

(***************************************************************************)
(* SpecRing: the rings of one queue pair driven through submit(),          *)
(* submit_checked() and quick_poll(), with no limit on the commands in     *)
(* flight.                                                                 *)
(***************************************************************************)
RingIdle(q) ==
    /\ q \in handles
    /\ pc[q] = "idle"
    /\ calls' = calls + 1

\* submit(entry) and the tail doorbell
RingSubmit(q) ==
    /\ RingIdle(q)
    /\ LET entry == io_read(submission[q].tail % U16, LbaOf(q), 0)
       IN /\ sq_mem' = [sq_mem EXCEPT ![q] = submit_slot(@, submission[q], entry)]
          /\ submission' = [submission EXCEPT ![q] = submit(@)]
          /\ doorbell' = [doorbell EXCEPT ![SQyTDBL(q)] = submit(submission[q]).tail]
    /\ UNCHANGED <<maximum_transfer_size, regs, namespace, io_queue_pair_ids, handles, completion,
                   cq_mem, ctrl, store, allocated, pc, call, result, src, dest,
                   completions>>

\* submit_checked(entry) and, if it returns Ok, the tail doorbell
RingSubmitChecked(q) ==
    /\ RingIdle(q)
    /\ LET entry == io_read(submission[q].tail % U16, LbaOf(q), 0)
       IN IF is_full(submission[q])
          THEN /\ result' = [result EXCEPT ![q] = Returned("submit_checked", "SubmissionQueueFull", 0, 0)]
               /\ UNCHANGED <<sq_mem, submission, doorbell>>
          ELSE /\ sq_mem' = [sq_mem EXCEPT ![q] = submit_slot(@, submission[q], entry)]
               /\ submission' = [submission EXCEPT ![q] = submit(@)]
               /\ doorbell' = [doorbell EXCEPT ![SQyTDBL(q)] = submit(submission[q]).tail]
               /\ result' = [result EXCEPT ![q] =
                               Returned("submit_checked", "Ok", submit(submission[q]).tail, 0)]
    /\ UNCHANGED <<maximum_transfer_size, regs, namespace, io_queue_pair_ids, handles, completion,
                   cq_mem, ctrl, store, allocated, pc, call, src, dest, completions>>

NextRing ==
    \/ \E n \in 2..maximum_queue_entries_supported :
            calls < MaxRingOps /\ handles = {} /\ CreateIoQueuePair(1, n)
    \/ CreateCqDone
    \/ CreateSqDone
    \/ \E q \in IoIds : calls < MaxRingOps /\ RingSubmit(q)
    \/ \E q \in IoIds : calls < MaxRingOps /\ RingSubmitChecked(q)
    \/ \E q \in IoIds : QuickPoll(q)
    \/ CtrlAdmin
    \/ \E q \in IoIds : CtrlIo(q)

SpecRing == Init /\ [][NextRing]_vars

(***************************************************************************)
(* SpecSync: one queue pair used through the synchronous read() and        *)
(* write() alone, one command after the other.                             *)
(***************************************************************************)
NextSync ==
    \/ \E n \in 2..maximum_queue_entries_supported :
            calls < MaxRingOps /\ handles = {} /\ CreateIoQueuePair(1, n)
    \/ CreateCqDone
    \/ CreateSqDone
    \/ \E q \in IoIds, b \in MainBuffers : calls < MaxRingOps /\ Write(q, b, 1)
    \/ \E q \in IoIds, b \in MainBuffers : calls < MaxRingOps /\ Read(q, b)
    \/ \E q \in IoIds : IoDone(q)
    \/ CtrlAdmin
    \/ \E q \in IoIds : CtrlIo(q)

SpecSync == Init /\ [][NextSync]_vars

(***************************************************************************)
(* SpecNs: one queue pair at a time, on any of the namespaces new() found. *)
(***************************************************************************)
NextNs ==
    \/ \E ns \in Namespaces, n \in 2..maximum_queue_entries_supported :
            calls < MaxIoCalls /\ handles = {} /\ CreateIoQueuePair(ns, n)
    \/ CreateCqDone
    \/ CreateSqDone
    \/ \E q \in IoIds, b \in MainBuffers : calls < MaxIoCalls /\ Write(q, b, 1)
    \/ \E q \in IoIds, b \in MainBuffers : calls < MaxIoCalls /\ Read(q, b)
    \/ \E q \in IoIds : IoDone(q)
    \/ CtrlAdmin
    \/ \E q \in IoIds : CtrlIo(q)

SpecNs == Init /\ [][NextNs]_vars

(***************************************************************************)
(* SpecPrp: prp::allocate as a function of the buffer it is given, applied *)
(* to buffers around the borders between the PrpContainer variants and     *)
(* between one PRP list page and the next.                                 *)
(***************************************************************************)
PrpPages ==
    LET prp_entries_per_page == PageSize \div 8
    IN  {0, 1, 2, 3, prp_entries_per_page - 1, prp_entries_per_page,
         prp_entries_per_page + 1, 2 * (prp_entries_per_page - 1),
         2 * (prp_entries_per_page - 1) + 1}
PrpSizes == {pages * PageSize + extra : pages \in PrpPages, extra \in {0, 8, PageSize - 8}}
PrpAddresses == {Aligned, Aligned + 2, Aligned + 4, Aligned + 8, Aligned + BlockSize,
                 Aligned + PageSize - 8}

\* prp::allocate(buffer, page_size, allocator) for a buffer at virt of size
\* bytes: the call and what it returned.
PrpAllocate(virt, size) ==
    LET container == prp_allocate(virt, size)
    IN  /\ call' = [call EXCEPT ![0] = [NoCall EXCEPT !.op = "prp_allocate",
                                                      !.virt = virt, !.len = size,
                                                      !.prp = container.kind,
                                                      !.lists = container.lists,
                                                      !.container =
                                                          prp_container(virt, size)]]
        /\ result' = [result EXCEPT ![0] = Returned("prp_allocate", container.err,
                                                     container.lists, size)]
        /\ UNCHANGED <<maximum_transfer_size, regs, namespace, io_queue_pair_ids, handles,
                       submission, completion, sq_mem, cq_mem, doorbell, ctrl, store,
                       allocated, pc, src, dest, calls, completions>>

NextPrp == \E virt \in PrpAddresses, size \in PrpSizes : PrpAllocate(virt, size)

SpecPrp == Init /\ [][NextPrp]_vars

(***************************************************************************)
(* SpecSteps: the program store by store.  NvmeDevice::new runs from the   *)
(* controller it finds (enabled or not) through its register writes and    *)
(* its admin commands; submit_and_complete(), read() and write() take one  *)
(* step for the ring slot and the tail, one for the tail doorbell, one for *)
(* the completion they reap and one for the head doorbell and the rest.    *)
(***************************************************************************)
\* the controller leaves the ready state after CC.EN is cleared
CtrlDisable ==
    /\ regs.en = 0
    /\ regs.rdy = 1
    /\ regs' = [regs EXCEPT !.rdy = 0]
    /\ ctrl' = [sq |-> [q \in Q |-> NoCtrlSq], cq |-> [q \in Q |-> NoCtrlCq]]
    /\ doorbell' = [r \in Doorbells |-> 0]
    /\ UNCHANGED <<maximum_transfer_size, namespace, io_queue_pair_ids, handles, submission,
                   completion, sq_mem, cq_mem, store, allocated, pc, call, result,
                   src, dest, calls, completions>>

\* the controller becomes ready after CC.EN is set: it takes the admin
\* queues from ASQ, ACQ and AQA
CtrlEnable ==
    /\ regs.en = 1
    /\ regs.rdy = 0
    /\ regs' = [regs EXCEPT !.rdy = 1]
    /\ ctrl' = [ctrl EXCEPT !.sq[0] = [exists |-> regs.asq = "admin_sq", head |-> 0,
                                       len |-> (regs.aqa % U16) + 1],
                            !.cq[0] = [exists |-> regs.acq = "admin_cq", tail |-> 0,
                                       phase |-> 1, len |-> (regs.aqa \div U16) + 1]]
    /\ UNCHANGED <<maximum_transfer_size, namespace, io_queue_pair_ids, handles, submission,
                   completion, sq_mem, cq_mem, doorbell, store, allocated, pc, call,
                   result, src, dest, calls, completions>>

\* new() returns err, or stops, with what it allocated so far still allocated
NewFails(err, page_size, dma) ==
    /\ result' = [result EXCEPT ![0] = Returned("new", err, 0, page_size)]
    /\ pc' = [pc EXCEPT ![0] = IF err = "panic" THEN "panicked" ELSE "failed"]
    /\ allocated' = [allocated EXCEPT !.device = @ + dma]
    /\ UNCHANGED <<maximum_transfer_size, regs, namespace, io_queue_pair_ids, handles,
                   submission, completion, sq_mem, cq_mem, doorbell, ctrl, store,
                   call, src, dest, calls, completions>>

\* nvme.rs 104-161: read CAP, check it and the caller's page_size
NewCheck(page_size) ==
    /\ pc[0] = "new"
    /\ \E read \in RegisterOutcomes(CAP, 8) :
          IF read # "Ok" THEN NewFails(read, page_size, 0)
          ELSE IF NewChecked(page_size) # "Ok"
               THEN NewFails(NewChecked(page_size), page_size, 0)
          ELSE /\ call' = [call EXCEPT ![0] = [NoCall EXCEPT !.op = "new",
                                                             !.len = page_size]]
               /\ pc' = [pc EXCEPT ![0] = "new_disable"]
               /\ UNCHANGED <<maximum_transfer_size, regs, namespace, io_queue_pair_ids,
                              handles, submission, completion, sq_mem, cq_mem, doorbell,
                              ctrl, store, allocated, result, src, dest, calls,
                              completions>>

\* nvme.rs 163-166: read CC, clear EN, write CC
NewDisable ==
    /\ pc[0] = "new_disable"
    /\ \E access \in RegisterOutcomes(CC, 4) :
          IF access # "Ok" THEN NewFails(access, call[0].len, 0)
          ELSE /\ regs' = [regs EXCEPT !.en = 0]
               /\ pc' = [pc EXCEPT ![0] = "new_not_ready"]
               /\ UNCHANGED <<maximum_transfer_size, namespace, io_queue_pair_ids, handles,
                              submission, completion, sq_mem, cq_mem, doorbell, ctrl,
                              store, allocated, call, result, src, dest, calls,
                              completions>>

\* nvme.rs 169-176: the loop leaves when it reads CSTS.RDY = 0
NewNotReady_mut_no_poll ==
    /\ pc[0] = "new_not_ready"
    /\ \E access \in RegisterOutcomes(CSTS, 4) :
          IF access # "Ok" THEN NewFails(access, call[0].len, 0)
          ELSE /\ pc' = [pc EXCEPT ![0] = "new_asq"]
               /\ UNCHANGED <<maximum_transfer_size, regs, namespace, io_queue_pair_ids,
                              handles, submission, completion, sq_mem, cq_mem, doorbell,
                              ctrl, store, allocated, call, result, src, dest, calls,
                              completions>>
NewNotReady ==
    /\ pc[0] = "new_not_ready"
    /\ \E access \in RegisterOutcomes(CSTS, 4) :
          IF access # "Ok" THEN NewFails(access, call[0].len, 0)
          ELSE /\ regs.rdy = 0
               /\ pc' = [pc EXCEPT ![0] = "new_asq"]
               /\ UNCHANGED <<maximum_transfer_size, regs, namespace, io_queue_pair_ids,
                              handles, submission, completion, sq_mem, cq_mem, doorbell,
                              ctrl, store, allocated, call, result, src, dest, calls,
                              completions>>

\* nvme.rs 179-191: allocate the admin queues, write ASQ
NewWriteAsq ==
    /\ pc[0] = "new_asq"
    /\ \E access \in RegisterOutcomes(ASQ, 8) :
          IF access # "Ok" THEN NewFails(access, call[0].len, 2)
          ELSE /\ submission' = [submission EXCEPT
                    ![0] = NewSubmissionQueue(maximum_queue_entries_supported)]
               /\ completion' = [completion EXCEPT
                    ![0] = NewCompletionQueue(maximum_queue_entries_supported)]
               /\ sq_mem' = [sq_mem EXCEPT
                    ![0] = Zeroed(maximum_queue_entries_supported, NoCommand)]
               /\ cq_mem' = [cq_mem EXCEPT
                    ![0] = Zeroed(maximum_queue_entries_supported, ZeroEntry)]
               /\ allocated' = [allocated EXCEPT !.device = @ + 2]
               /\ regs' = [regs EXCEPT !.asq = "admin_sq"]
               /\ pc' = [pc EXCEPT ![0] = "new_acq"]
               /\ UNCHANGED <<maximum_transfer_size, namespace, io_queue_pair_ids, handles,
                              doorbell, ctrl, store, call, result, src, dest, calls,
                              completions>>

\* nvme.rs 192: write ACQ
NewWriteAcq ==
    /\ pc[0] = "new_acq"
    /\ \E access \in RegisterOutcomes(ACQ, 8) :
          IF access # "Ok" THEN NewFails(access, call[0].len, 0)
          ELSE /\ regs' = [regs EXCEPT !.acq = "admin_cq"]
               /\ pc' = [pc EXCEPT ![0] = "new_aqa"]
               /\ UNCHANGED <<maximum_transfer_size, namespace, io_queue_pair_ids, handles,
                              submission, completion, sq_mem, cq_mem, doorbell, ctrl,
                              store, allocated, call, result, src, dest, calls,
                              completions>>

\* nvme.rs 193-195: write AQA
NewWriteAqa ==
    /\ pc[0] = "new_aqa"
    /\ \E access \in RegisterOutcomes(AQA, 4) :
          IF access # "Ok" THEN NewFails(access, call[0].len, 0)
          ELSE /\ regs' = [regs EXCEPT !.aqa = (maximum_queue_entries_supported - 1) * U16
                                                 + (maximum_queue_entries_supported - 1)]
               /\ pc' = [pc EXCEPT ![0] = "new_enable"]
               /\ UNCHANGED <<maximum_transfer_size, namespace, io_queue_pair_ids, handles,
                              submission, completion, sq_mem, cq_mem, doorbell, ctrl,
                              store, allocated, call, result, src, dest, calls,
                              completions>>

\* nvme.rs 201-222: write CC with EN = 1
NewEnable ==
    /\ pc[0] = "new_enable"
    /\ \E access \in RegisterOutcomes(CC, 4) :
          IF access # "Ok" THEN NewFails(access, call[0].len, 0)
          ELSE /\ regs' = [regs EXCEPT !.en = 1]
               /\ pc' = [pc EXCEPT ![0] = "new_ready"]
               /\ UNCHANGED <<maximum_transfer_size, namespace, io_queue_pair_ids, handles,
                              submission, completion, sq_mem, cq_mem, doorbell, ctrl,
                              store, allocated, call, result, src, dest, calls,
                              completions>>

\* nvme.rs 225-235: the loop leaves when it reads CSTS.RDY = 1; the scratch
\* buffer is allocated and Identify Controller is next
NewReady ==
    /\ pc[0] = "new_ready"
    /\ \E access \in RegisterOutcomes(CSTS, 4) :
          IF access # "Ok" THEN NewFails(access, call[0].len, 0)
          ELSE /\ regs.rdy = 1
               /\ allocated' = [allocated EXCEPT !.device = @ + 1]
               /\ call' = [call EXCEPT ![0] = [NoCall EXCEPT !.op = "new", !.step = 1]]
               /\ pc' = [pc EXCEPT ![0] = "submit"]
               /\ UNCHANGED <<maximum_transfer_size, regs, namespace, io_queue_pair_ids,
                              handles, submission, completion, sq_mem, cq_mem, doorbell,
                              ctrl, store, result, src, dest, calls, completions>>

\* the command the closure of the call in progress builds for command id cid
AdminCommand(cid) ==
    LET c == call[0]
    IN  CASE c.op = "new" -> NewCommand(c.step, cid)
          [] c.op = "create" /\ c.step = 1 ->
                create_io_completion_queue(cid, c.queue_id, c.n - 1)
          [] OTHER -> create_io_submission_queue(cid, c.queue_id, c.n - 1)

\* the slot before the tail of a ring, and the entry the completion queue
\* has just passed
PrevIndex(index, len) == (index + len - 1) % len
PrevEntry(y) == cq_mem[y][PrevIndex(completion[y].head, completion[y].len) + 1]

\* queue_pairs.rs 24-27: cid = tail; submission.submit(cmd_init(cid, ..))
StepSubmit ==
    /\ pc[0] = "submit"
    /\ sq_mem' = [sq_mem EXCEPT ![0] = submit_slot(@, submission[0], AdminCommand(AdminCid))]
    /\ submission' = [submission EXCEPT ![0] = submit(@)]
    /\ pc' = [pc EXCEPT ![0] = "ring"]
    /\ UNCHANGED <<maximum_transfer_size, regs, namespace, io_queue_pair_ids, handles,
                   completion, cq_mem, doorbell, ctrl, store, allocated, call, result,
                   src, dest, calls, completions>>

\* queue_pairs.rs 28: set_submission_queue_tail_doorbell(0, tail, ..)
StepRing ==
    /\ pc[0] = "ring"
    /\ doorbell' = [doorbell EXCEPT ![SQyTDBL(0)] = submission[0].tail]
    /\ pc' = [pc EXCEPT ![0] = "spin"]
    /\ UNCHANGED <<maximum_transfer_size, regs, namespace, io_queue_pair_ids, handles,
                   submission, completion, sq_mem, cq_mem, ctrl, store, allocated, call,
                   result, src, dest, calls, completions>>

\* queue_pairs.rs 30: complete_spin() returns
StepReap_mut_no_spin ==
    /\ pc[0] = "spin"
    /\ completion' = AdminCompleteCq
    /\ completions' = AdminCompleteCount
    /\ pc' = [pc EXCEPT ![0] = "ack"]
    /\ UNCHANGED <<maximum_transfer_size, regs, namespace, io_queue_pair_ids, handles,
                   submission, sq_mem, cq_mem, doorbell, ctrl, store, allocated, call,
                   result, src, dest, calls>>
StepReap ==
    /\ pc[0] = "spin"
    /\ AdminReaped
    /\ completion' = AdminCompleteCq
    /\ completions' = AdminCompleteCount
    /\ pc' = [pc EXCEPT ![0] = "ack"]
    /\ UNCHANGED <<maximum_transfer_size, regs, namespace, io_queue_pair_ids, handles,
                   submission, sq_mem, cq_mem, doorbell, ctrl, store, allocated, call,
                   result, src, dest, calls>>

\* queue_pairs.rs 31-36: set_completion_queue_head_doorbell(0, head, ..) and
\* the status check, then the caller up to its next submit_and_complete()
StepAck ==
    /\ pc[0] = "ack"
    /\ doorbell' = [doorbell EXCEPT ![CQyHDBL(0)] = completion[0].head]
    /\ LET c == call[0]
           queue_id == c.queue_id
           status == PrevEntry(0).status \div 2
       IN  IF status # 0
           THEN /\ result' = [result EXCEPT ![0] =
                                 Returned(c.op, "IoCompletionQueueFailure", status, 0)]
                /\ pc' = [pc EXCEPT ![0] = IF c.op = "new" THEN "failed" ELSE "idle"]
                /\ call' = [call EXCEPT ![0] = NoCall]
                /\ completion' = IF c.op = "create"
                                 THEN [completion EXCEPT ![queue_id] = AbsentCq]
                                 ELSE completion
                /\ cq_mem' = IF c.op = "create" THEN [cq_mem EXCEPT ![queue_id] = <<>>]
                             ELSE cq_mem
                /\ submission' = IF c.op = "create"
                                 THEN [submission EXCEPT ![queue_id] = Absent]
                                 ELSE submission
                /\ sq_mem' = IF c.op = "create" THEN [sq_mem EXCEPT ![queue_id] = <<>>]
                             ELSE sq_mem
                /\ UNCHANGED <<allocated, io_queue_pair_ids, handles, namespace>>
           ELSE IF c.op = "new"
           THEN /\ IF c.step < InitCommands
                   THEN /\ call' = [call EXCEPT ![0].step = @ + 1]
                        /\ pc' = [pc EXCEPT ![0] = "submit"]
                        /\ UNCHANGED result
                   ELSE /\ call' = [call EXCEPT ![0] = NoCall]
                        /\ pc' = [pc EXCEPT ![0] = "idle"]
                        /\ result' = [result EXCEPT ![0] = Returned("new", "Ok", 0, 0)]
                /\ UNCHANGED <<completion, cq_mem, submission, sq_mem, allocated,
                               io_queue_pair_ids, handles, namespace>>
           ELSE IF c.step = 1
           THEN /\ submission' = [submission EXCEPT ![queue_id] = NewSubmissionQueue(c.n)]
                /\ sq_mem' = [sq_mem EXCEPT ![queue_id] = Zeroed(c.n, NoCommand)]
                /\ allocated' = [allocated EXCEPT !.queue[queue_id] = @ + 1]
                /\ call' = [call EXCEPT ![0].step = 2]
                /\ pc' = [pc EXCEPT ![0] = "submit"]
                /\ UNCHANGED <<result, completion, cq_mem, io_queue_pair_ids, handles,
                               namespace>>
           ELSE /\ result' = [result EXCEPT ![0] = Returned("create", "Ok", queue_id, 0)]
                /\ io_queue_pair_ids' = Append(io_queue_pair_ids, queue_id)
                /\ handles' = handles \cup {queue_id}
                /\ namespace' = [namespace EXCEPT ![queue_id] = c.namespace_id]
                /\ call' = [call EXCEPT ![0] = NoCall]
                /\ pc' = [pc EXCEPT ![0] = "idle"]
                /\ UNCHANGED <<completion, cq_mem, submission, sq_mem, allocated>>
    /\ UNCHANGED <<maximum_transfer_size, regs, ctrl, store, src, dest, calls, completions>>

\* nvme.rs 404-446: create_io_queue_pair() up to its first
\* submit_and_complete_admin()
StepCreate(namespace_id, number_of_queue_entries) ==
    /\ pc[0] = "idle"
    /\ calls' = calls + 1
    /\ LET err == CreateChecked(namespace_id, number_of_queue_entries)
           queue_id == LowestFree
           n == number_of_queue_entries
       IN IF err # "Ok"
          THEN /\ result' = [result EXCEPT ![0] = Returned("create", err, 0, 0)]
               /\ UNCHANGED <<completion, cq_mem, allocated, pc, call>>
          ELSE \E asserted \in DoorbellAsserted(queue_id) :
           IF asserted # "Ok"
          THEN /\ result' = [result EXCEPT ![0] = Returned("create", asserted, 0, 0)]
               /\ pc' = [pc EXCEPT ![0] = "panicked"]
               /\ UNCHANGED <<completion, cq_mem, allocated, call>>
          ELSE /\ completion' = [completion EXCEPT ![queue_id] = NewCompletionQueue(n)]
               /\ cq_mem' = [cq_mem EXCEPT ![queue_id] = Zeroed(n, ZeroEntry)]
               /\ allocated' = [allocated EXCEPT !.queue[queue_id] = @ + 1]
               /\ pc' = [pc EXCEPT ![0] = "submit"]
               /\ call' = [call EXCEPT ![0] = [NoCall EXCEPT !.op = "create", !.step = 1,
                                                !.queue_id = queue_id,
                                                !.namespace_id = namespace_id, !.n = n]]
               /\ UNCHANGED result
    /\ UNCHANGED <<maximum_transfer_size, regs, namespace, io_queue_pair_ids, handles,
                   submission, sq_mem, doorbell, ctrl, store, src, dest, completions>>

\* the command read() or write() builds for call c of queue pair q and
\* command id cid
IoCommand(q, c, cid) ==
    LET blocks == c.len \div block_size(namespace[q])
    IN  IF c.op = "write"
        THEN io_write(cid, LbaOf(q), NumberOfBlocksField(blocks))
        ELSE io_read(cid, LbaOf(q), NumberOfBlocksField(blocks))

\* queue_pairs.rs 90-128, 176-214: read() or write() of buffer b up to
\* submission.submit(entry), on a queue pair whose namespace has blocks
StepIoSubmit(q, op, b, d) ==
    /\ q \in handles
    /\ pc[q] = "idle"
    /\ block_size(namespace[q]) # 0
    /\ calls' = calls + 1
    /\ LET c == Checked(block_size(namespace[q]), b.len, b.virt)
           buffer == IF op = "write" THEN Filled(b.len, d) ELSE Blank
           started == [call EXCEPT ![q] = [NoCall EXCEPT !.op = op, !.queue_id = q,
                                                         !.virt = b.virt, !.len = b.len,
                                                         !.prp = c.kind, !.lists = c.lists,
                                                         !.data = d, !.buffer = buffer]]
       IN  IF c.err # "Ok"
           THEN /\ result' = [result EXCEPT ![q] = Returned(op, c.err, 0, b.len)]
                /\ UNCHANGED <<allocated, sq_mem, submission, pc, call>>
           ELSE /\ allocated' = [allocated EXCEPT !.prp[q] = @ + c.lists]
                /\ call' = started
                /\ sq_mem' = [sq_mem EXCEPT ![q] =
                                submit_slot(@, submission[q],
                                            IoCommand(q, started[q],
                                                      submission[q].tail % U16))]
                /\ submission' = [submission EXCEPT ![q] = submit(@)]
                /\ pc' = [pc EXCEPT ![q] = "ring"]
                /\ UNCHANGED result
    /\ UNCHANGED <<maximum_transfer_size, regs, namespace, io_queue_pair_ids, handles,
                   completion, cq_mem, doorbell, ctrl, store, src, dest, completions>>

\* queue_pairs.rs 130-135, 216-221: set_submission_queue_tail_doorbell()
StepIoRing_mut_no_doorbell(q) ==
    /\ pc[q] = "ring"
    /\ pc' = [pc EXCEPT ![q] = "wait"]
    /\ UNCHANGED <<maximum_transfer_size, regs, namespace, io_queue_pair_ids, handles,
                   submission, completion, sq_mem, cq_mem, ctrl, store, allocated, call,
                   result, src, dest, calls, completions, doorbell>>
StepIoRing(q) ==
    /\ pc[q] = "ring"
    /\ doorbell' = [doorbell EXCEPT ![SQyTDBL(q)] = submission[q].tail]
    /\ pc' = [pc EXCEPT ![q] = "wait"]
    /\ UNCHANGED <<maximum_transfer_size, regs, namespace, io_queue_pair_ids, handles,
                   submission, completion, sq_mem, cq_mem, ctrl, store, allocated, call,
                   result, src, dest, calls, completions>>

\* queue_pairs.rs 230: completion.complete_n(1) returns
StepIoReap_mut_no_phase_check(q) ==
    /\ pc[q] = "wait"
    /\ LET skipped == complete_n_skip(completion[q], 1)
       IN  /\ completion' = [completion EXCEPT ![q] = complete(skipped)]
           /\ completions' = [completions EXCEPT ![q] = @ + 1]
    /\ pc' = [pc EXCEPT ![q] = "ack"]
    /\ UNCHANGED <<maximum_transfer_size, regs, namespace, io_queue_pair_ids, handles,
                   submission, sq_mem, cq_mem, doorbell, ctrl, store, allocated, call,
                   result, src, dest, calls>>
StepIoReap(q) ==
    /\ pc[q] = "wait"
    /\ LET skipped == complete_n_skip(completion[q], 1)
       IN  /\ complete_ok(skipped, cq_mem[q])
           /\ completion' = [completion EXCEPT ![q] = complete(skipped)]
           /\ completions' = [completions EXCEPT ![q] = @ + 1]
    /\ pc' = [pc EXCEPT ![q] = "ack"]
    /\ UNCHANGED <<maximum_transfer_size, regs, namespace, io_queue_pair_ids, handles,
                   submission, sq_mem, cq_mem, doorbell, ctrl, store, allocated, call,
                   result, src, dest, calls>>

\* queue_pairs.rs 231-240 and 136-139, 222-225: the head doorbell store of
\* complete_io(1), its status check, and the return of read() or write()
StepIoAck_mut_every_head(q) ==
    /\ pc[q] = "ack"
    /\ doorbell' = [doorbell EXCEPT ![CQyHDBL(q)] = completion[q].head]
    /\ submission' = [r \in Q |-> IF r \in handles
                                  THEN [submission[r] EXCEPT !.head = PrevEntry(q).sq_head]
                                  ELSE submission[r]]
    /\ LET c == call[q]
           status == PrevEntry(q).status \div 2
       IN  IF status # 0
           THEN /\ result' = [result EXCEPT ![q] =
                                 Returned(c.op, "IoCompletionQueueFailure", status, c.len)]
                /\ UNCHANGED <<allocated, src>>
           ELSE /\ result' = [result EXCEPT ![q] = Returned(c.op, "Ok", 0, c.len)]
                /\ allocated' = [allocated EXCEPT !.prp[q] = @ - c.lists]
                /\ src' = IF c.op = "write"
                          THEN [src EXCEPT ![q] = [len |-> c.len, data |-> c.data]]
                          ELSE src
    /\ dest' = IF call[q].op = "read" THEN [dest EXCEPT ![q] = call[q].buffer] ELSE dest
    /\ pc' = [pc EXCEPT ![q] = "idle"]
    /\ call' = [call EXCEPT ![q] = NoCall]
    /\ UNCHANGED <<maximum_transfer_size, regs, namespace, io_queue_pair_ids, handles,
                   completion, sq_mem, cq_mem, ctrl, store, calls, completions>>
StepIoAck(q) ==
    /\ pc[q] = "ack"
    /\ doorbell' = [doorbell EXCEPT ![CQyHDBL(q)] = completion[q].head]
    /\ submission' = [submission EXCEPT ![q].head = PrevEntry(q).sq_head]
    /\ LET c == call[q]
           status == PrevEntry(q).status \div 2
       IN  IF status # 0
           THEN /\ result' = [result EXCEPT ![q] =
                                 Returned(c.op, "IoCompletionQueueFailure", status, c.len)]
                /\ UNCHANGED <<allocated, src>>
           ELSE /\ result' = [result EXCEPT ![q] = Returned(c.op, "Ok", 0, c.len)]
                /\ allocated' = [allocated EXCEPT !.prp[q] = @ - c.lists]
                /\ src' = IF c.op = "write"
                          THEN [src EXCEPT ![q] = [len |-> c.len, data |-> c.data]]
                          ELSE src
    /\ dest' = IF call[q].op = "read" THEN [dest EXCEPT ![q] = call[q].buffer] ELSE dest
    /\ pc' = [pc EXCEPT ![q] = "idle"]
    /\ call' = [call EXCEPT ![q] = NoCall]
    /\ UNCHANGED <<maximum_transfer_size, regs, namespace, io_queue_pair_ids, handles,
                   completion, sq_mem, cq_mem, ctrl, store, calls, completions>>

\* before new(): nothing is allocated; the controller is as the firmware or
\* an earlier driver left it, enabled and ready or disabled
InitSteps ==
    /\ maximum_transfer_size = 16384 * PageSize
    /\ io_queue_pair_ids = <<>>
    /\ handles = {}
    /\ submission = [q \in Q |-> Absent]
    /\ completion = [q \in Q |-> AbsentCq]
    /\ sq_mem = [q \in Q |-> <<>>]
    /\ cq_mem = [q \in Q |-> <<>>]
    /\ doorbell = [r \in Doorbells |-> 0]
    /\ \E enabled \in {0, 1} :
          /\ regs = [length |-> WindowLength, cap |-> Cap,
                     en |-> enabled, rdy |-> enabled, asq |-> "none", acq |-> "none",
                     aqa |-> 0]
          /\ ctrl = [sq |-> [q \in Q |-> NoCtrlSq], cq |-> [q \in Q |-> NoCtrlCq]]
    /\ store = [q \in IoIds |-> Blank]
    /\ allocated = [device |-> 0, queue |-> [q \in IoIds |-> 0],
                    prp |-> [q \in IoIds |-> 0], copied |-> [q \in IoIds |-> 0]]
    /\ pc = [q \in Q |-> IF q = 0 THEN "new_disable" ELSE "idle"]
    /\ call = [q \in Q |-> NoCall]
    /\ result = [q \in Q |-> NoResult]
    /\ src = [q \in IoIds |-> NoSrc]
    /\ dest = [q \in IoIds |-> Blank]
    /\ calls = 0
    /\ completions = [q \in Q |-> 0]
    /\ namespace = [q \in IoIds |-> 0]

NextSteps ==
    \/ CtrlDisable
    \/ CtrlEnable
    \/ NewDisable
    \/ NewNotReady
    \/ NewWriteAsq
    \/ NewWriteAcq
    \/ NewWriteAqa
    \/ NewEnable
    \/ NewReady
    \/ StepSubmit
    \/ StepRing
    \/ StepReap
    \/ StepAck
    \/ \E ns \in Namespaces, n \in 2..maximum_queue_entries_supported :
            calls < MaxIoCalls /\ StepCreate(ns, n)
    \/ \E q \in IoIds, b \in MainBuffers : calls < MaxIoCalls /\ StepIoSubmit(q, "write", b, 1)
    \/ \E q \in IoIds, b \in MainBuffers : calls < MaxIoCalls /\ StepIoSubmit(q, "read", b, 0)
    \/ \E q \in IoIds : StepIoRing(q)
    \/ \E q \in IoIds : StepIoReap(q)
    \/ \E q \in IoIds : StepIoAck(q)
    \/ CtrlAdmin
    \/ \E q \in IoIds : CtrlIo(q)

SpecSteps == InitSteps /\ [][NextSteps]_vars

(***************************************************************************)
(* SpecFair: the steps of SpecSteps with a controller that does not stop   *)
(* and threads that keep running.                                          *)
(***************************************************************************)
\* the program of the thread that owns the device: new() and
\* submit_and_complete(), from one register access or ring operation to the
\* next
DeviceThread ==
    \/ NewDisable
    \/ NewNotReady
    \/ NewWriteAsq
    \/ NewWriteAcq
    \/ NewWriteAqa
    \/ NewEnable
    \/ NewReady
    \/ StepSubmit
    \/ StepRing
    \/ StepReap
    \/ StepAck

\* a buffer of one block
PairBuffers == {[virt |-> Aligned, len |-> BlockSize]}

\* the rest of a read() or write() of the thread that owns queue pair q
IoThread(q) == StepIoRing(q) \/ StepIoReap(q) \/ StepIoAck(q)

\* the controller changes CSTS.RDY after a change of CC.EN and executes the
\* command at the head of every queue whose tail doorbell was rung
Fairness ==
    /\ WF_vars(CtrlDisable)
    /\ WF_vars(CtrlEnable)
    /\ WF_vars(CtrlAdmin)
    /\ \A q \in IoIds : WF_vars(CtrlIo(q))
    /\ WF_vars(DeviceThread)
    /\ \A q \in IoIds : WF_vars(IoThread(q))

\* the steps of SpecSteps, with queue pairs of two entries and reads and
\* writes of one block
NextFair ==
    \/ CtrlDisable
    \/ CtrlEnable
    \/ DeviceThread
    \/ \E ns \in Namespaces : calls < MaxIoCalls /\ StepCreate(ns, 2)
    \/ \E q \in IoIds, b \in PairBuffers : calls < MaxIoCalls /\ StepIoSubmit(q, "write", b, 1)
    \/ \E q \in IoIds, b \in PairBuffers : calls < MaxIoCalls /\ StepIoSubmit(q, "read", b, 0)
    \/ \E q \in IoIds : IoThread(q)
    \/ CtrlAdmin
    \/ \E q \in IoIds : CtrlIo(q)

SpecFair == InitSteps /\ [][NextFair]_vars /\ Fairness

(***************************************************************************)
(* SpecPairs: two I/O queue pairs, each operated by a thread of its own,   *)
(* with the steps of their reads and writes and the completions of the     *)
(* device interleaved in every order.                                      *)
(***************************************************************************)
MaxPairCalls == 2

\* the admin commands issued before the threads start: those of new(), then
\* those of create_io_queue_pair(1, n1) and create_io_queue_pair(1, n2)
PairsCommands == InitCommands + 4
PairsCommand(k, n1, n2) ==
    LET cid == (k - 1) % maximum_queue_entries_supported
    IN  CASE k <= InitCommands -> NewCommand(k, cid)
          [] k = InitCommands + 1 -> create_io_completion_queue(cid, 1, n1 - 1)
          [] k = InitCommands + 2 -> create_io_submission_queue(cid, 1, n1 - 1)
          [] k = InitCommands + 3 -> create_io_completion_queue(cid, 2, n2 - 1)
          [] OTHER -> create_io_submission_queue(cid, 2, n2 - 1)

\* the last of these commands that used ring slot i
PairsLastInSlot(i) ==
    LET ks == {k \in 1..PairsCommands : (k - 1) % maximum_queue_entries_supported = i}
    IN IF ks = {} THEN 0 ELSE CHOOSE k \in ks : \A j \in ks : j <= k

\* the state after new() and two calls of create_io_queue_pair(), for
\* namespace 1 and n1 and n2 queue entries, that returned ids 1 and 2
PairsCreated(n1, n2) ==
    LET len == maximum_queue_entries_supported
        at == PairsCommands % len
        phase == (PairsCommands \div len) % 2 = 0
        n == [q \in IoIds |-> IF q = 1 THEN n1 ELSE n2]
    IN  /\ maximum_transfer_size = 16384 * PageSize
        /\ io_queue_pair_ids = <<1, 2>>
        /\ handles = {1, 2}
        /\ submission = [q \in Q |-> IF q = 0 THEN [head |-> 0, tail |-> at, len |-> len]
                                      ELSE IF q \in {1, 2} THEN NewSubmissionQueue(n[q])
                                      ELSE Absent]
        /\ completion = [q \in Q |-> IF q = 0 THEN [head |-> at, phase |-> phase, len |-> len]
                                      ELSE IF q \in {1, 2} THEN NewCompletionQueue(n[q])
                                      ELSE AbsentCq]
        /\ sq_mem = [q \in Q |->
                       IF q = 0
                       THEN [i \in 1..len |->
                               IF PairsLastInSlot(i - 1) = 0 THEN NoCommand
                               ELSE PairsCommand(PairsLastInSlot(i - 1), n1, n2)]
                       ELSE IF q \in {1, 2} THEN Zeroed(n[q], NoCommand) ELSE <<>>]
        /\ cq_mem = [q \in Q |->
                       IF q = 0
                       THEN [i \in 1..len |->
                               LET k == PairsLastInSlot(i - 1)
                               IN IF k = 0 THEN ZeroEntry
                                  ELSE [sq_head |-> k % len, sq_id |-> 0,
                                        command_id |-> PairsCommand(k, n1, n2).command_id,
                                        status |-> IF ((k - 1) \div len) % 2 = 0
                                                   THEN 1 ELSE 0]]
                       ELSE IF q \in {1, 2} THEN Zeroed(n[q], ZeroEntry) ELSE <<>>]
        /\ doorbell = [r \in Doorbells |->
                         IF r \in {SQyTDBL(0), CQyHDBL(0)} THEN at ELSE 0]
        /\ ctrl = [sq |-> [q \in Q |->
                             IF q = 0 THEN [exists |-> TRUE, head |-> at, len |-> len]
                             ELSE IF q \in {1, 2}
                             THEN [exists |-> TRUE, head |-> 0, len |-> n[q]]
                             ELSE NoCtrlSq],
                   cq |-> [q \in Q |->
                             IF q = 0 THEN [exists |-> TRUE, tail |-> at,
                                            phase |-> IF phase THEN 1 ELSE 0, len |-> len]
                             ELSE IF q \in {1, 2}
                             THEN [exists |-> TRUE, tail |-> 0, phase |-> 1, len |-> n[q]]
                             ELSE NoCtrlCq]]
        /\ store = [q \in IoIds |-> Blank]
        /\ allocated = [device |-> 3,
                        queue |-> [q \in IoIds |-> IF q \in {1, 2} THEN 2 ELSE 0],
                        prp |-> [q \in IoIds |-> 0], copied |-> [q \in IoIds |-> 0]]
        /\ pc = [q \in Q |-> "idle"]
        /\ call = [q \in Q |-> NoCall]
        /\ result = [q \in Q |-> IF q = 0 THEN Returned("create", "Ok", 2, 0) ELSE NoResult]
        /\ src = [q \in IoIds |-> NoSrc]
        /\ dest = [q \in IoIds |-> Blank]
        /\ calls = 2
        /\ completions = [q \in Q |-> IF q = 0 THEN PairsCommands ELSE 0]
        /\ regs = [length |-> WindowLength, cap |-> Cap,
                   en |-> 1, rdy |-> 1, asq |-> "admin_sq", acq |-> "admin_cq",
                   aqa |-> (len - 1) * U16 + (len - 1)]
        /\ namespace = [q \in IoIds |-> IF q \in {1, 2} THEN 1 ELSE 0]

\* the smallest ring for pair 1, any ring for pair 2
InitPairs == \E n2 \in 2..maximum_queue_entries_supported : PairsCreated(2, n2)

\* a step of the thread that owns queue pair q, or a completion the device
\* posts for a command of q
PairStep(q) ==
    \/ \E b \in PairBuffers : completions[q] < MaxPairCalls /\ StepIoSubmit(q, "write", b, 1)
    \/ \E b \in PairBuffers : completions[q] < MaxPairCalls /\ StepIoSubmit(q, "read", b, 0)
    \/ StepIoRing(q)
    \/ StepIoReap(q)
    \/ StepIoAck(q)
    \/ CtrlIo(q)

NextPairs == \E q \in {1, 2} : PairStep(q)

SpecPairs == InitPairs /\ [][NextPairs]_vars

(***************************************************************************)
(* SpecCq: one CompletionQueue, the entries a device posts into its ring,  *)
(* and complete() and complete_n(n) called on it.                          *)
(***************************************************************************)
\* entries posted and not yet reaped
Pending == calls - completions[1]

\* CompletionQueue::new(n, ..) and the device queue that posts into it
CqNew(n) ==
    /\ completion[1] = AbsentCq
    /\ completion' = [completion EXCEPT ![1] = NewCompletionQueue(n)]
    /\ cq_mem' = [cq_mem EXCEPT ![1] = Zeroed(n, ZeroEntry)]
    /\ ctrl' = [ctrl EXCEPT !.cq[1] = [exists |-> TRUE, tail |-> 0, phase |-> 1, len |-> n]]
    /\ UNCHANGED <<maximum_transfer_size, regs, namespace, io_queue_pair_ids, handles,
                   submission, sq_mem, doorbell, store, allocated, pc, call, result,
                   src, dest, calls, completions>>

\* the device posts one more entry, into a slot the host has reaped
CqPost ==
    /\ ctrl.cq[1].exists
    /\ Pending < ctrl.cq[1].len
    /\ LET tail == (ctrl.cq[1].tail + 1) % ctrl.cq[1].len
       IN /\ cq_mem' = [cq_mem EXCEPT ![1][ctrl.cq[1].tail + 1] =
                            [sq_head |-> 0, sq_id |-> 1, command_id |-> calls,
                             status |-> ctrl.cq[1].phase]]
          /\ ctrl' = [ctrl EXCEPT !.cq[1].tail = tail,
                                  !.cq[1].phase = IF tail = 0 THEN 1 - @ ELSE @]
    /\ calls' = calls + 1
    /\ UNCHANGED <<maximum_transfer_size, regs, namespace, io_queue_pair_ids, handles,
                   submission, completion, sq_mem, doorbell, store, allocated, pc, call,
                   result, src, dest, completions>>

\* complete()
CqComplete ==
    /\ completion[1].len > 0
    /\ LET cq == completion[1]
           entry == HeadEntry(cq, cq_mem[1])
       IN IF complete_ok(cq, cq_mem[1])
          THEN /\ completion' = [completion EXCEPT ![1] = complete(cq)]
               /\ completions' = [completions EXCEPT ![1] = @ + 1]
               /\ result' = [result EXCEPT ![1] =
                     Returned("complete", "Ok", entry.command_id, complete(cq).head)]
               /\ call' = [call EXCEPT ![1] = [NoCall EXCEPT !.op = "complete", !.n = 1,
                                                            !.step = cq.head]]
          ELSE /\ result' = [result EXCEPT ![1] =
                     Returned("complete", "CompletionQueueCompletionFailure", 0, 0)]
               /\ call' = [call EXCEPT ![1] = [NoCall EXCEPT !.op = "complete", !.n = 1]]
               /\ UNCHANGED <<completion, completions>>
    /\ UNCHANGED <<maximum_transfer_size, regs, namespace, io_queue_pair_ids, handles,
                   submission, sq_mem, cq_mem, doorbell, ctrl, store, allocated, pc,
                   src, dest, calls>>

\* complete_n(commands): it returns when complete_spin() finds the entry
CqCompleteN(commands) ==
    /\ completion[1].len > 0
    /\ LET cq == completion[1]
           skipped == complete_n_skip(cq, commands)
           entry == HeadEntry(skipped, cq_mem[1])
       IN /\ complete_ok(skipped, cq_mem[1])
          /\ completion' = [completion EXCEPT ![1] = complete(skipped)]
          /\ completions' = [completions EXCEPT ![1] = @ + commands]
          /\ result' = [result EXCEPT ![1] =
                Returned("complete_n", "Ok", entry.command_id, complete(skipped).head)]
          /\ call' = [call EXCEPT ![1] = [NoCall EXCEPT !.op = "complete_n",
                                                       !.n = commands, !.step = cq.head]]
    /\ UNCHANGED <<maximum_transfer_size, regs, namespace, io_queue_pair_ids, handles,
                   submission, sq_mem, cq_mem, doorbell, ctrl, store, allocated, pc,
                   src, dest, calls>>

NextCq ==
    \/ \E n \in 2..maximum_queue_entries_supported : CqNew(n)
    \/ calls < 2 * MaxRingOps /\ CqPost
    \/ CqComplete
    \/ \E commands \in 1..maximum_queue_entries_supported :
            commands <= completion[1].len /\ CqCompleteN(commands)

SpecCq == Init /\ [][NextCq]_vars

(***************************************************************************)
(* SpecDoorbell: the doorbell offsets the driver computes for a queue id    *)
(* and a doorbell stride.                                                  *)
(***************************************************************************)
Strides == 0..15
QueueIds == {0, 1, 2, 3, 8191, 8192, 16383, 16384, 32767, 32768, 65535}

\* what a computation yields: a panic in a build with overflow checks when
\* it overflows, the value otherwise
Computed(checks, overflows, value) == IF checks /\ overflows THEN "panic" ELSE value

\* the four offsets for queue queue_id: the ones the doorbell functions
\* write to, and the ones create_io_queue_pair computes for the queue pair
DoorbellOffsets(queue_id, doorbell_stride, checks) ==
    [sq |-> Computed(checks, DoorbellOverflows(doorbell_stride, 2 * queue_id),
                     WrittenOffset(doorbell_stride, 2 * queue_id)),
     cq |-> Computed(checks, DoorbellOverflows(doorbell_stride, 2 * queue_id + 1),
                     WrittenOffset(doorbell_stride, 2 * queue_id + 1)),
     stored_sq |-> Computed(checks, 2 * queue_id >= U16,
                            StoredOffset(doorbell_stride, 2 * queue_id)),
     stored_cq |-> Computed(checks, 2 * queue_id + 1 >= U16,
                            StoredOffset(doorbell_stride, 2 * queue_id + 1))]

Doorbell(queue_id, doorbell_stride) ==
    /\ \E checks \in BOOLEAN :
          result' = [result EXCEPT ![0] =
              Returned("doorbell", "Ok",
                       DoorbellOffsets(queue_id, doorbell_stride, checks), 0)]
    /\ call' = [call EXCEPT ![0] = [NoCall EXCEPT !.op = "doorbell",
                                                 !.queue_id = queue_id,
                                                 !.n = doorbell_stride]]
    /\ UNCHANGED <<maximum_transfer_size, regs, namespace, io_queue_pair_ids, handles,
                   submission, completion, sq_mem, cq_mem, doorbell, ctrl, store,
                   allocated, pc, src, dest, calls, completions>>

\* the pairs the exact offsets of which stay below 2^31
NextDoorbell ==
    \E queue_id \in QueueIds, doorbell_stride \in Strides :
        queue_id < 2 ^ (27 - doorbell_stride) /\ Doorbell(queue_id, doorbell_stride)

SpecDoorbell == Init /\ [][NextDoorbell]_vars

(***************************************************************************)
(* SpecAqa: the value NvmeDevice::new writes to AQA, for the CAP.MQES it   *)
(* reads.                                                                  *)
(***************************************************************************)
\* nvme.rs 194-195: (size - 1) << 16 | (size - 1) in u32, for a size of at
\* most 2^16; the two operands share no bit
aqa(size) == (size - 1) * U16 + (size - 1)

\* CAP.MQES values: small ones, the ones around the 12 bits of ASQS and
\* ACQS, and large ones
MqesValues == (0..100) \cup (4090..4100) \cup {16383, 32767}

\* nvme.rs 105-199 for one MQES: the size check, the rings, the AQA value
WriteAqa(mqes) ==
    /\ call' = [call EXCEPT ![0] = [NoCall EXCEPT !.op = "aqa", !.n = mqes]]
    /\ result' = [result EXCEPT ![0] =
          IF mqes + 1 = 1
          THEN Returned("aqa", "MaximumQueueEntriesSupportedInvalidlyZero", 0, 0)
          ELSE Returned("aqa", "Ok", aqa(mqes + 1),
                        NewSubmissionQueue(mqes + 1).len)]
    /\ UNCHANGED <<maximum_transfer_size, regs, namespace, io_queue_pair_ids, handles,
                   submission, completion, sq_mem, cq_mem, doorbell, ctrl, store,
                   allocated, pc, src, dest, calls, completions>>

NextAqa == \E mqes \in MqesValues : WriteAqa(mqes)

SpecAqa == Init /\ [][NextAqa]_vars

(***************************************************************************)
(* SpecPrpFail: prp::allocate with an allocator one of whose calls fails.  *)
(***************************************************************************)
\* the call of the allocator that fails: the translation of the second
\* page, or inside the Dma::allocate of list page number `at` (from 0) the
\* allocation or the translation of the page just allocated; "none": no
\* call fails
Failures == [stage : {"none", "prp_2", "allocate", "translate"}, at : 0..2]

\* prp.rs 40-95 and dma.rs 26-43: what allocate() returns and the number of
\* list pages it took from the allocator and did not give back.  The pages
\* of a container returned with Ok are the container's.  On an error the
\* Vec of list pages is dropped, and Dma has no Drop: the pages pushed
\* before the failing Dma::allocate, and the page of a Dma::allocate whose
\* translation failed, stay allocated.
prp_allocate_failing(virt, size, failure) ==
    LET a == prp_allocate(virt, size)
    IN  IF a.err # "Ok" \/ a.kind = "One" THEN [returned |-> a, held |-> 0]
        ELSE IF failure.stage = "prp_2"
        THEN [returned |-> Failed("TranslateVirtualToPhysical"), held |-> 0]
        ELSE IF a.kind = "Two" THEN [returned |-> a, held |-> 0]
        ELSE IF failure.stage = "allocate" /\ failure.at < a.lists
        THEN [returned |-> Failed("Allocate"), held |-> failure.at]
        ELSE IF failure.stage = "translate" /\ failure.at < a.lists
        THEN [returned |-> Failed("TranslateVirtualToPhysical"), held |-> failure.at + 1]
        ELSE [returned |-> a, held |-> a.lists]

\* one call of prp::allocate in each behaviour, on an allocator that holds
\* no list page before it
PrpAllocateFailing(virt, size, failure) ==
    LET a == prp_allocate_failing(virt, size, failure)
    IN  /\ call[0].op = "none"
        /\ call' = [call EXCEPT ![0] = [NoCall EXCEPT !.op = "prp_allocate",
                                                      !.virt = virt, !.len = size,
                                                      !.prp = a.returned.kind,
                                                      !.lists = a.returned.lists,
                                                      !.data = failure]]
        /\ result' = [result EXCEPT ![0] = Returned("prp_allocate", a.returned.err,
                                                     a.returned.lists, size)]
        /\ allocated' = [allocated EXCEPT !.prp[1] = a.held]
        /\ UNCHANGED <<maximum_transfer_size, regs, namespace, io_queue_pair_ids, handles,
                       submission, completion, sq_mem, cq_mem, doorbell, ctrl, store,
                       pc, src, dest, calls, completions>>

NextPrpFail ==
    \E virt \in PrpAddresses, size \in PrpSizes, failure \in Failures :
        PrpAllocateFailing(virt, size, failure)

SpecPrpFail == Init /\ [][NextPrpFail]_vars

(***************************************************************************)
(* SpecCommand: the NvmeCommand read() and write() build for a buffer and  *)
(* a logical block address, with all the fields they set.                  *)
(***************************************************************************)
\* a u64 logical block address, as its two 32-bit words
Lbas == [high : {0, 1, 2 ^ 30}, low : {0, 1, 2 ^ 30}]

\* cmd.rs 167-215: io_read / io_write
IoEntry(op, command_id, namespace_id, logical_block_address, number_of_blocks, prp_1, prp_2) ==
    [opcode |-> IF op = "write" THEN 1 ELSE 2,
     command_id |-> command_id,
     namespace_id |-> namespace_id,
     data_pointer |-> <<prp_1, prp_2>>,
     cdw10 |-> logical_block_address.low,
     cdw11 |-> logical_block_address.high,
     cdw12 |-> number_of_blocks]

\* the buffers: at a page boundary and 8 bytes after one; empty, of one
\* block, of one to three pages, of 65536 blocks and of 65537
CommandAddresses == {Aligned, Aligned + 8}
CommandSizes == {0, BlockSize, PageSize, 2 * PageSize, 3 * PageSize,
                 (U16 - 1) * BlockSize, U16 * BlockSize, (U16 + 1) * BlockSize}

\* queue_pairs.rs 90-126 and 160-196: from the checks to the entry
BuildEntry(op, virt, len, logical_block_address) ==
    LET c == Checked(BlockSize, len, virt)
        blocks == len \div BlockSize
        container == prp_container(virt, len)
        entry == IoEntry(op, submission[0].tail % U16, 1, logical_block_address,
                         NumberOfBlocksField(blocks), container.prp_1, container.prp_2)
    IN  /\ call' = [call EXCEPT ![0] = [NoCall EXCEPT !.op = op, !.virt = virt,
                                                      !.len = len, !.prp = c.kind,
                                                      !.lists = c.lists,
                                                      !.container = container,
                                                      !.data = logical_block_address]]
        /\ \E overflow_checks \in OverflowChecks(blocks) :
              result' = [result EXCEPT ![0] =
                  IF c.err # "Ok" THEN Returned(op, c.err, 0, len)
                  ELSE IF overflow_checks THEN Returned(op, "panic", 0, len)
                  ELSE Returned(op, "Ok", entry, len)]
        /\ UNCHANGED <<maximum_transfer_size, regs, namespace, io_queue_pair_ids, handles,
                       submission, completion, sq_mem, cq_mem, doorbell, ctrl, store,
                       allocated, pc, src, dest, calls, completions>>

\* one command is built in each behaviour
NextCommand ==
    \E op \in {"read", "write"}, virt \in CommandAddresses, len \in CommandSizes,
       logical_block_address \in Lbas :
        call[0].op = "none" /\ BuildEntry(op, virt, len, logical_block_address)

SpecCommand == Init /\ [][NextCommand]_vars

(***************************************************************************)
(* SpecNew: NvmeDevice::new from its first line, over windows of several   *)
(* lengths, controllers with several CAP values and several page sizes.    *)
(***************************************************************************)
\* lengths of the mapped window: too short for CAP, for the queue registers,
\* for the doorbells, and long enough for everything
WindowLengths == {4, 32, DoorbellBase, WindowLength}
\* CAP.NCSS, CAP.MPSMIN, CAP.MPSMAX and CAP.DSTRD of the controllers
Caps == [ncss : {0, 1}, mpsmin : {0, 1}, mpsmax : {0, 2, 15}, dstrd : {0}]
\* the page sizes the caller passes
PageSizes == {0, 2048, 4096, 6144, 8192, 12288, 16384, 2 ^ 27, 2 ^ 28, 2 ^ 29}

InitNew ==
    /\ maximum_transfer_size = 16384 * PageSize
    /\ io_queue_pair_ids = <<>>
    /\ handles = {}
    /\ submission = [q \in Q |-> Absent]
    /\ completion = [q \in Q |-> AbsentCq]
    /\ sq_mem = [q \in Q |-> <<>>]
    /\ cq_mem = [q \in Q |-> <<>>]
    /\ doorbell = [r \in Doorbells |-> 0]
    /\ \E enabled \in {0, 1}, length \in WindowLengths, cap \in Caps :
          regs = [length |-> length, cap |-> cap,
                  en |-> enabled, rdy |-> enabled, asq |-> "none", acq |-> "none",
                  aqa |-> 0]
    /\ ctrl = [sq |-> [q \in Q |-> NoCtrlSq], cq |-> [q \in Q |-> NoCtrlCq]]
    /\ store = [q \in IoIds |-> Blank]
    /\ allocated = [device |-> 0, queue |-> [q \in IoIds |-> 0],
                    prp |-> [q \in IoIds |-> 0], copied |-> [q \in IoIds |-> 0]]
    /\ pc = [q \in Q |-> IF q = 0 THEN "new" ELSE "idle"]
    /\ call = [q \in Q |-> NoCall]
    /\ result = [q \in Q |-> NoResult]
    /\ src = [q \in IoIds |-> NoSrc]
    /\ dest = [q \in IoIds |-> Blank]
    /\ calls = 0
    /\ completions = [q \in Q |-> 0]
    /\ namespace = [q \in IoIds |-> 0]

NextNew ==
    \/ \E page_size \in PageSizes : NewCheck(page_size)
    \/ CtrlDisable
    \/ CtrlEnable
    \/ NewDisable
    \/ NewNotReady
    \/ NewWriteAsq
    \/ NewWriteAcq
    \/ NewWriteAqa
    \/ NewEnable
    \/ NewReady
    \/ StepSubmit
    \/ StepRing
    \/ StepReap
    \/ StepAck
    \/ CtrlAdmin

SpecNew == InitNew /\ [][NextNew]_vars

(***************************************************************************)
(* Properties.                                                             *)
(***************************************************************************)

\* C1: in every reachable state, every submission queue of capacity N >= 2
\* has 0 <= head < N and 0 <= tail < N and is not both empty and full,
\* whatever submit(), submit_checked() and the head updates taken from
\* completion entries have done.
C1_RingIndices ==
    \A q \in Q : submission[q].len >= 2 =>
        /\ submission[q].head >= 0 /\ submission[q].head < submission[q].len
        /\ submission[q].tail >= 0 /\ submission[q].tail < submission[q].len
        /\ ~(is_empty(submission[q]) /\ is_full(submission[q]))

\* a full ring whose head came from a completion entry and whose tail has
\* wrapped, just refused by submit_checked()
C1_Witness ==
    \E q \in IoIds :
        /\ submission[q].len >= 2
        /\ submission[q].head # 0
        /\ is_full(submission[q])
        /\ result[q].err = "SubmissionQueueFull"

\* C2: a successful complete() changes the expected phase if and only if it
\* moves head from N-1 to 0; so after c successful completions head is
\* c mod N and the phase is the initial one iff c div N is even (N more
\* completions toggle the phase once and bring head back).
C2_PhaseToggles ==
    /\ [][\A q \in Q :
            (completion[q].len > 0 /\ completion'[q].len = completion[q].len
                /\ completions'[q] = completions[q] + 1)
            => ((completion'[q].phase # completion[q].phase)
                 <=> (completion[q].head = completion[q].len - 1 /\ completion'[q].head = 0))]_vars
    /\ [](\A q \in Q : completion[q].len > 0 =>
            /\ completion[q].head = completions[q] % completion[q].len
            /\ completion[q].phase = ((completions[q] \div completion[q].len) % 2 = 0))

\* an I/O completion queue of capacity 3 that has been around twice
C2_Witness ==
    \E q \in IoIds : completion[q].len = 3 /\ completions[q] = 6

\* C3: the live ids are distinct and lie in 1..maximum_number_of_io_queue_pairs;
\* a successful create adds exactly the id it returns, which was not live,
\* and a delete removes exactly the id of its handle and nothing else, so a
\* create followed by the delete of its handle restores the set.
C3_LiveSet ==
    /\ [](/\ Cardinality(Range(io_queue_pair_ids)) = Len(io_queue_pair_ids)
          /\ Range(io_queue_pair_ids) \subseteq IoIds)
    /\ [][/\ (pc[0] = "create_sq" /\ pc'[0] = "idle" /\ result'[0].err = "Ok")
              => /\ result'[0].value \notin Range(io_queue_pair_ids)
                 /\ Range(io_queue_pair_ids') = Range(io_queue_pair_ids) \cup {result'[0].value}
          /\ (pc[0] = "idle" /\ pc'[0] = "delete_sq")
              => /\ call'[0].queue_id \in Range(io_queue_pair_ids)
                 /\ Range(io_queue_pair_ids') = Range(io_queue_pair_ids) \ {call'[0].queue_id}
          /\ (pc[0] \in {"delete_sq", "delete_cq"})
              => io_queue_pair_ids' = io_queue_pair_ids]_vars

\* ids 1 and 2 created, then the handle with id 2 deleted
C3_Witness ==
    /\ result[0] = Returned("delete", "Ok", 2, 0)
    /\ io_queue_pair_ids = <<1>>

C5_FailedValidationTouchesNothing ==
    [][\A q \in IoIds, b \in Buffers, d \in Data :
        (/\ \/ b.len > maximum_transfer_size
             \/ b.len % BlockSize # 0
             \/ b.virt % 4 # 0
             \/ ((b.virt % PageSize) + b.len > PageSize /\ b.virt % PageSize # 0)
         /\ (Write(q, b, d) \/ Read(q, b)))
        => /\ pc'[q] = "idle"
           /\ result'[q].err \notin {"Ok", "none"}
           /\ UNCHANGED <<sq_mem, cq_mem, submission, completion, doorbell>>]_vars

\* a write at an address that is not dword aligned has been refused on a
\* queue pair that had already completed a command
C5_Witness ==
    \E q \in IoIds :
        /\ result[q] = Returned("write", "VirtualAddressIsNotDwordAligned", 0, BlockSize)
        /\ submission[q].tail = 1
        /\ doorbell[SQyTDBL(q)] = 1

\* C6: a read that returns Ok, of the length of the last buffer written
\* with Ok to the same LBA on the same queue pair, yields the data of that
\* buffer.
C6_WriteThenRead ==
    \A q \in IoIds :
        (/\ result[q].op \in {"read", "read_copied"}
         /\ result[q].err = "Ok"
         /\ src[q].len > 0
         /\ result[q].len = src[q].len)
        => \A s \in SegsOfBytes(src[q].len) : dest[q][s] = src[q].data

\* C7: an operation that reaps a completion entry whose status bits 15:1
\* are not zero returns IoCompletionQueueFailure with exactly those bits
\* (entry.status >> 1); one that reaps an entry whose bits are zero does
\* not return that error.
C7_StatusReported ==
    [][\A q \in Q :
        (completion[q].len > 0 /\ completion'[q].len = completion[q].len
            /\ completions'[q] = completions[q] + 1)
        => LET entry == HeadEntry(completion[q], cq_mem[q])
               code == (entry.status - (entry.status % 2)) \div 2
           IN IF code # 0
              THEN /\ pc'[q] = "idle"
                   /\ result'[q].err = "IoCompletionQueueFailure"
                   /\ result'[q].value = code
              ELSE pc'[q] = "idle" => result'[q].err # "IoCompletionQueueFailure"]_vars

\* a read has failed with the status 0x0181 >> 1 of the controller
C7_Witness ==
    \E q \in IoIds :
        /\ result[q].op = "read"
        /\ result[q].err = "IoCompletionQueueFailure"
        /\ result[q].value \in StatusCodes \ {0}

\* C8: once a read or write has returned, the PRP list pages built for it
\* have been returned to the allocator, whatever the completion status.
C8_PrpListsReleased ==
    \A q \in IoIds : pc[q] = "idle" => allocated.prp[q] = 0

\* C9: when every queue pair that was created has been deleted, the
\* allocator holds what it held right after initialization: the admin
\* submission queue, the admin completion queue and the scratch buffer.
C9_AllocationsReturned ==
    (/\ pc[0] = "idle"
     /\ handles = {}
     /\ result[0].op = "delete"
     /\ result[0].err = "Ok")
    => /\ allocated.device = 3
       /\ \A q \in IoIds : allocated.queue[q] = 0 /\ allocated.prp[q] = 0 /\ allocated.copied[q] = 0

\* C10: shutdown() returns Ok, having released the admin queues and the
\* scratch buffer.
C10_ShutdownReturnsOk ==
    result[0].op = "shutdown" => result[0].err = "Ok" /\ allocated.device = 0

\* C11: complete_io() does not block: a read or write that has rung its
\* tail doorbell and finds at the head of the completion queue an entry
\* without the expected phase can return at once (with
\* CompletionQueueCompletionFailure, leaving the rings and doorbells alone).
C11_CompleteIoDoesNotBlock ==
    \A q \in IoIds :
        (pc[q] = "wait" /\ ~complete_ok(completion[q], cq_mem[q])) => ENABLED IoDone(q)

\* C12: on a queue pair of capacity N used through read() and write()
\* alone, after k calls that reaped their completion SQ.tail = k mod N,
\* CQ.head = k mod N, SQ.head = SQ.tail, and the expected phase is the
\* initial one (TRUE) iff k div N is even.
C12_RingsAfterCalls ==
    \A q \in IoIds :
        (q \in handles /\ pc[q] = "idle") =>
            LET k == completions[q]
                N == submission[q].len
            IN /\ completion[q].len = N
               /\ submission[q].tail = k % N
               /\ completion[q].head = k % N
               /\ submission[q].head = submission[q].tail
               /\ completion[q].phase = ((k \div N) % 2 = 0)

\* two successful calls on a queue pair of capacity 3: tail and head at 2,
\* the phase still the initial one
C12_Witness ==
    \E q \in IoIds :
        /\ q \in handles /\ pc[q] = "idle"
        /\ submission[q].len = 3
        /\ completions[q] = 2
        /\ result[q].err = "Ok"
        /\ submission[q].tail = 2 /\ completion[q].head = 2 /\ completion[q].phase

\* C16: create_io_queue_pair passes its entry-count checks exactly when
\* 2 <= n <= maximum_queue_entries_supported: below 2 (1 and 0) it returns
\* NumberOfQueueEntriesLessThanTwo, above the maximum (MQES + 2)
\* NumberOfQueueEntriesMoreThanMaximum, and in between it goes on to the
\* later checks and to the Create I/O Completion Queue command.
C16_EntryCount ==
    [][\A ns \in {1, 2}, n \in 0..(maximum_queue_entries_supported + 2) :
         CreateIoQueuePair(ns, n) =>
            /\ n < 2 <=> (pc'[0] = "idle"
                            /\ result'[0] = Returned("create", "NumberOfQueueEntriesLessThanTwo", 0, 0))
            /\ n > maximum_queue_entries_supported
                 <=> (pc'[0] = "idle"
                       /\ result'[0] = Returned("create", "NumberOfQueueEntriesMoreThanMaximum", 0, 0))
            /\ (n >= 2 /\ n <= maximum_queue_entries_supported /\ ns \in Namespaces
                    /\ FreeIds # {})
                 => (pc'[0] = "create_cq" /\ call'[0].n = n)]_vars

\* a queue pair of 2 entries and one of maximum_queue_entries_supported
\* entries exist, and a call with one entry more has just been refused
C16_Witness ==
    /\ handles = {1, 2}
    /\ submission[1].len = 2
    /\ submission[2].len = maximum_queue_entries_supported
    /\ result[0] = Returned("create", "NumberOfQueueEntriesMoreThanMaximum", 0, 0)

\* C17: a read or write of a page-aligned buffer of exactly
\* maximum_transfer_size bytes is accepted and its command submitted; one of
\* maximum_transfer_size + 1 bytes returns
\* BufferLengthBiggerThanMaximumTransferSize and submits nothing.
C17_MaximumTransferSize ==
    [][\A q \in IoIds, d \in Data :
        /\ LET b == [virt |-> Aligned, len |-> maximum_transfer_size]
           IN (Write(q, b, d) \/ Read(q, b))
                => /\ pc'[q] = "wait"
                   /\ submission'[q].tail = (submission[q].tail + 1) % submission[q].len
                   /\ doorbell'[SQyTDBL(q)] = submission'[q].tail
        /\ LET b == [virt |-> Aligned, len |-> maximum_transfer_size + 1]
           IN (Write(q, b, d) \/ Read(q, b))
                => /\ pc'[q] = "idle"
                   /\ result'[q].err = "BufferLengthBiggerThanMaximumTransferSize"
                   /\ result'[q].len = maximum_transfer_size + 1
                   /\ UNCHANGED <<submission, sq_mem, doorbell>>]_vars

\* C18: on a queue pair whose namespace has block size B > 0, a read or
\* write of a buffer no longer than maximum_transfer_size returns
\* BufferLengthNotAMultipleOfNamespaceBlockSize iff its length is not a
\* multiple of B; a page-aligned buffer of exactly B bytes is accepted and
\* submitted.
C18_BlockSizeMultiple ==
    [][\A q \in IoIds, b \in Buffers, d \in Data :
        (/\ b.len <= maximum_transfer_size
         /\ q \in handles /\ block_size(namespace[q]) > 0
         /\ (Write(q, b, d) \/ Read(q, b)))
        => /\ (b.len % block_size(namespace[q]) # 0)
                <=> (/\ pc'[q] = "idle"
                     /\ result'[q].err = "BufferLengthNotAMultipleOfNamespaceBlockSize"
                     /\ result'[q].len = b.len)
           /\ (b.virt = Aligned /\ b.len = block_size(namespace[q])) => pc'[q] = "wait"]_vars

\* a one-block buffer has been written, then a read of a buffer one byte
\* shorter has been refused
C18_Witness ==
    \E q \in IoIds :
        /\ completions[q] = 1
        /\ src[q].len = BlockSize
        /\ result[q] = Returned("read", "BufferLengthNotAMultipleOfNamespaceBlockSize", 0,
                                BlockSize - 1)

\* C19: a namespace recorded with block_size = 0 is unusable: no queue pair
\* is handed out for it, and no read or write on it stops the program or
\* posts a command; each such call returns an error.
C19_UnusableNamespace ==
    \A q \in IoIds :
        (namespace[q] \in Namespaces /\ block_size(namespace[q]) = 0)
        => /\ q \notin handles
           /\ pc[q] \notin {"panicked", "wait"}


\* C20: prp::allocate of a valid buffer returns the variant One when the
\* buffer lies in one page, Two when it spans two pages, and Multiple when it
\* spans three or more; a Multiple container owns the least number of list
\* pages that hold one entry for every page after the first when each list
\* page holds PageSize / 8 - 1 of them, which is one list page for a span of
\* 3 up to PageSize / 8 pages and two for a span of PageSize / 8 + 1.
C20_PrpContainer ==
    (call[0].op = "prp_allocate" /\ result[0].err = "Ok") =>
        LET span == ((call[0].virt % PageSize) + call[0].len + PageSize - 1) \div PageSize
            per_list == PageSize \div 8 - 1
            lists == call[0].lists
        IN  /\ span >= 1
            /\ span = 1 => call[0].prp = "One" /\ lists = 0
            /\ span = 2 => call[0].prp = "Two" /\ lists = 0
            /\ span >= 3 => /\ call[0].prp = "Multiple"
                            /\ lists * per_list >= span - 1
                            /\ (lists - 1) * per_list < span - 1
            /\ span \in 3..(PageSize \div 8) => lists = 1
            /\ span = PageSize \div 8 + 1 => lists = 2

\* a buffer of PageSize / 8 + 1 pages was given two list pages
C20_Witness ==
    /\ call[0].op = "prp_allocate"
    /\ result[0].err = "Ok"
    /\ call[0].virt % PageSize = 0
    /\ call[0].len = (PageSize \div 8 + 1) * PageSize
    /\ call[0].prp = "Multiple"
    /\ call[0].lists = 2

\* C13: whenever the program stores to a submission queue tail doorbell, the
\* ring slot before the new tail already holds the command of the call in
\* progress and the store publishes that tail; whenever it stores to a
\* completion queue head doorbell, the queue has already passed the entry
\* before the new head, that entry carries the phase that was expected of
\* it, and the store publishes that head.  This holds for the admin queue
\* pair and for the I/O queue pairs.
C13_StoreOrder ==
    [][\A y \in Q :
         /\ (ctrl' = ctrl /\ doorbell'[SQyTDBL(y)] # doorbell[SQyTDBL(y)]) =>
               LET prev == PrevIndex(submission[y].tail, submission[y].len)
               IN  /\ sq_mem'[y] = sq_mem[y]
                   /\ submission'[y] = submission[y]
                   /\ doorbell'[SQyTDBL(y)] = submission[y].tail
                   /\ sq_mem[y][prev + 1] = IF y = 0 THEN AdminCommand(prev)
                                            ELSE IoCommand(y, call[y], prev)
         /\ (ctrl' = ctrl /\ doorbell'[CQyHDBL(y)] # doorbell[CQyHDBL(y)]) =>
               LET expected == IF completion[y].head = 0 THEN ~completion[y].phase
                               ELSE completion[y].phase
               IN  /\ cq_mem'[y] = cq_mem[y]
                   /\ completion'[y] = completion[y]
                   /\ doorbell'[CQyHDBL(y)] = completion[y].head
                   /\ ((PrevEntry(y).status % 2) = 1) = expected
      ]_vars

\* a write() has returned Ok after both doorbells of its queue pair were
\* stored to, on a device whose new() and create_io_queue_pair() did the same
\* on the admin queue pair
C13_Witness ==
    \E q \in IoIds :
        /\ q \in handles /\ pc[q] = "idle"
        /\ result[q].op = "write" /\ result[q].err = "Ok"
        /\ doorbell[SQyTDBL(q)] = 1 /\ doorbell[CQyHDBL(q)] = 1
        /\ completions[0] = InitCommands + 2

\* C14: in new(), ASQ, ACQ and AQA are written only while CC.EN is 0 and
\* CSTS.RDY is 0; CC.EN goes from 0 to 1 only when ASQ, ACQ and AQA hold the
\* admin queues new() allocated; and the program stores to the admin
\* submission queue tail doorbell only while CC.EN is 1 and CSTS.RDY is 1
\* for those queues.
C14_RegisterProtocol ==
    [][/\ (regs'.asq # regs.asq \/ regs'.acq # regs.acq \/ regs'.aqa # regs.aqa) =>
             regs.en = 0 /\ regs.rdy = 0
       /\ (regs.en = 0 /\ regs'.en = 1) =>
             /\ regs.asq = "admin_sq"
             /\ regs.acq = "admin_cq"
             /\ regs.aqa = (maximum_queue_entries_supported - 1) * U16
                             + (maximum_queue_entries_supported - 1)
       /\ (ctrl' = ctrl /\ doorbell'[SQyTDBL(0)] # doorbell[SQyTDBL(0)]) =>
             /\ regs.en = 1 /\ regs.rdy = 1
             /\ regs.asq = "admin_sq" /\ regs.acq = "admin_cq"
      ]_vars

\* new() has rung the admin tail doorbell for Identify Controller, its first
\* command, on the controller it enabled
C14_Witness ==
    /\ call[0].op = "new"
    /\ doorbell[SQyTDBL(0)] = 1
    /\ completions[0] = 0
    /\ regs.en = 1 /\ regs.rdy = 1 /\ regs.asq = "admin_sq"

\* C15: every command submit_and_complete() writes to the admin ring
\* carries as its command_id the tail the admin submission queue had when
\* the command was submitted.
C15_CommandIdIsTail ==
    [][submission'[0].tail # submission[0].tail =>
          sq_mem'[0][submission[0].tail + 1].command_id = submission[0].tail % U16
      ]_vars

\* C21: the payload page addresses a container returned by prp::allocate
\* encodes (PRP1, the PRP2 of a Two, and every list entry but the last of
\* each list page) are as many distinct addresses as the buffer spans pages,
\* each after the first is page aligned, and the last entry of a list page
\* is the address of the next list page, or no pointer in the last list page.
C21_PayloadPages ==
    (call[0].op = "prp_allocate" /\ result[0].err = "Ok") =>
        LET c == call[0].container
            span == ((call[0].virt % PageSize) + call[0].len + PageSize - 1) \div PageSize
            per_page == PageSize \div 8
            payload == {c.prp_1}
                       \cup (IF call[0].prp = "Two" THEN {c.prp_2} ELSE {})
                       \cup {c.prp_lists[i][j] : i \in 1..Len(c.prp_lists),
                                                 j \in 1..(per_page - 1)}
        IN  /\ Cardinality(payload) = span
            /\ \A a \in payload \ {c.prp_1} : a % PageSize = 0
            /\ \A i \in 1..Len(c.prp_lists) :
                    c.prp_lists[i][per_page] = IF i < Len(c.prp_lists) THEN ListAddress(i)
                                               ELSE 0

\* C22: in a Multiple container the k-th list entry that is no chain
\* pointer, counted through the list pages in order, is the physical address
\* of the page at virt + k * PageSize, for k = 1 .. span - 1.
C22_ListEntries ==
    (call[0].op = "prp_allocate" /\ result[0].err = "Ok" /\ call[0].prp = "Multiple") =>
        LET c == call[0].container
            span == ((call[0].virt % PageSize) + call[0].len + PageSize - 1) \div PageSize
            per_list == PageSize \div 8 - 1
        IN  \A k \in 1..(span - 1) :
                c.prp_lists[((k - 1) \div per_list) + 1][((k - 1) % per_list) + 1]
                    = translate_virtual_to_physical(call[0].virt + k * PageSize)

\* C23: prp::allocate returns VirtualAddressIsNotDwordAligned exactly when
\* the virtual address of the buffer is no multiple of 4.
C23_DwordAligned ==
    call[0].op = "prp_allocate" =>
        ((result[0].err = "VirtualAddressIsNotDwordAligned") <=> (call[0].virt % 4 # 0))

\* C24: for a buffer at a multiple of 4, prp::allocate returns
\* VirtualAddressIsNotPageAligned exactly when the buffer spans two pages or
\* more and does not start on a page boundary; a buffer within one page is
\* accepted and yields One with its physical address; and with that error
\* no PRP list page is allocated.
C24_PageAligned ==
    (call[0].op = "prp_allocate" /\ call[0].virt % 4 = 0) =>
        LET span == ((call[0].virt % PageSize) + call[0].len + PageSize - 1) \div PageSize
        IN  /\ (result[0].err = "VirtualAddressIsNotPageAligned")
                  <=> (span >= 2 /\ call[0].virt % PageSize # 0)
            /\ span = 1 => /\ result[0].err = "Ok"
                           /\ call[0].prp = "One"
                           /\ call[0].container.prp_1
                                 = translate_virtual_to_physical(call[0].virt)
            /\ result[0].err = "VirtualAddressIsNotPageAligned" =>
                  call[0].lists = 0 /\ call[0].container = NoContainer


\* the errors of NvmeDevice::new that name the page size
PageSizeErrors ==
    {"PageSizeLessThanNvmeMinimum", "PageSizeMoreThanNvmeMaximum",
     "PageSizeLessThanControllerMinimum", "PageSizeMoreThanControllerMaximum",
     "PageSizeNotAPowerOfTwo"}

\* page_size is a power of two in [2^12, 2^28] and in [MPSMIN, MPSMAX]
PageSizeValid(page_size) ==
    /\ \E k \in 0..30 : page_size = 2 ^ k
    /\ 2 ^ 12 <= page_size /\ page_size <= 2 ^ 28
    /\ minimum_memory_page_size <= page_size
    /\ page_size <= maximum_memory_page_size

\* the step of new() that reads CAP and decides on page_size: what it
\* decided, for the page size it was given
PageSizeDecision ==
    LET accepted == pc'[0] = "new_disable"
        page_size == IF accepted THEN call'[0].len ELSE result'[0].len
    IN  /\ accepted <=> PageSizeValid(page_size)
        /\ ~accepted => /\ result'[0].err \in PageSizeErrors
                        /\ regs' = regs
                        /\ doorbell' = doorbell
                        /\ allocated' = allocated
                        /\ sq_mem' = sq_mem /\ cq_mem' = cq_mem

RegisterOf(at) ==
    CASE at = "new" -> <<CAP, 8>>
      [] at \in {"new_disable", "new_enable"} -> <<CC, 4>>
      [] at \in {"new_not_ready", "new_ready"} -> <<CSTS, 4>>
      [] at = "new_asq" -> <<ASQ, 8>>
      [] at = "new_acq" -> <<ACQ, 8>>
      [] at = "new_aqa" -> <<AQA, 4>>
      [] OTHER -> <<0, 0>>

\* C26: every MMIO access of the driver lies inside the mapped window,
\* whatever its length: a doorbell the driver writes ends at or before the
\* end of the window, and a step of new() whose register would reach past
\* the end of the window accesses nothing and returns
\* MemoryAccessOutOfBounds.
C26_AccessInWindow ==
    [][(ctrl' = ctrl /\ regs'.rdy = regs.rdy) =>
          /\ \A r \in Doorbells :
                doorbell'[r] # doorbell[r] => DoorbellOffset(r) + 4 <= regs.length
          /\ (pc'[0] # pc[0] /\ RegisterOf(pc[0])[2] > 0
                 /\ RegisterOf(pc[0])[1] + RegisterOf(pc[0])[2] > regs.length) =>
                /\ pc'[0] = "failed"
                /\ result'[0].err = "MemoryAccessOutOfBounds"
                /\ regs' = regs]_vars


\* the admin command a step of the driver has just put into the admin ring
Submitted == sq_mem'[0][submission[0].tail + 1]

\* C27: on the device an I/O submission queue exists only while the
\* completion queue of the same id exists; the driver submits Create SQ(q)
\* only when the controller has completed everything before it and CQ q
\* exists, and Delete CQ(q) only when the controller has completed
\* everything before it and SQ q is gone.
C27_SqWithinCq ==
    [][/\ \A q \in IoIds : ctrl'.sq[q].exists => ctrl'.cq[q].exists
       /\ (submission'[0] # submission[0] /\ submission[0].tail # submission'[0].tail) =>
             LET q == Submitted.cdw10 % U16
             IN  /\ Submitted.opcode = 1 =>
                       /\ ctrl.sq[0].head = submission[0].tail
                       /\ completion[0].head # completion'[0].head
                       /\ ctrl.cq[q].exists
                 /\ Submitted.opcode = 4 =>
                       /\ ctrl.sq[0].head = submission[0].tail
                       /\ completion[0].head # completion'[0].head
                       /\ ~ctrl.sq[q].exists]_vars

C27_Witness ==
    /\ pc[0] = "delete_cq"
    /\ ctrl.cq[call[0].queue_id].exists
    /\ ~ctrl.sq[call[0].queue_id].exists
    /\ \E q \in IoIds : q # call[0].queue_id /\ ctrl.sq[q].exists /\ ctrl.cq[q].exists


\* the errors create_io_queue_pair and delete_io_queue_pair return from
\* their checks
CheckErrors ==
    {"NumberOfQueueEntriesLessThanTwo", "NumberOfQueueEntriesMoreThanMaximum",
     "NamespaceDoesNotExist", "MaximumNumberOfQueuesReached",
     "IoQueuePairDoesNotExist"}

\* C28: a create_io_queue_pair or delete_io_queue_pair that returns one of
\* the errors of its checks puts no command into the admin ring, rings no
\* doorbell, allocates nothing, and leaves the live ids, the namespaces of
\* the queue pairs, the admin queue indices and the controller as they
\* were.
C28_FailedChecksChangeNothing ==
    [][(/\ calls' # calls
        /\ pc[0] = "idle" /\ pc'[0] = "idle"
        /\ result'[0].err \in CheckErrors) =>
          /\ sq_mem' = sq_mem
          /\ cq_mem' = cq_mem
          /\ submission' = submission
          /\ completion' = completion
          /\ doorbell' = doorbell
          /\ allocated' = allocated
          /\ io_queue_pair_ids' = io_queue_pair_ids
          /\ namespace' = namespace
          /\ completions' = completions
          /\ ctrl' = ctrl]_vars

C28_Witness ==
    /\ pc[0] = "idle"
    /\ result[0].op = "delete"
    /\ result[0].err = "IoQueuePairDoesNotExist"
    /\ io_queue_pair_ids # <<>>
    /\ completions[0] > InitCommands


\* C29: submit_checked returns SubmissionQueueFull exactly when
\* head = (tail + 1) mod N, and then the ring, head and tail stay as they
\* were; otherwise, like submit, it stores the entry in slot tail, makes
\* tail (tail + 1) mod N, leaves head alone and returns the new tail.
C29_SubmitChecked ==
    [][\A q \in IoIds :
          LET sq == submission[q]
              next == (sq.tail + 1) % sq.len
              entry == io_read(sq.tail % U16, LbaOf(q), 0)
          IN  /\ (calls' # calls /\ result'[q] # result[q]
                     /\ result'[q].op = "submit_checked") =>
                    /\ (result'[q].err = "SubmissionQueueFull") <=> (sq.head = next)
                    /\ result'[q].err \in {"SubmissionQueueFull", "Ok"}
                    /\ result'[q].err = "SubmissionQueueFull" =>
                          sq_mem'[q] = sq_mem[q] /\ submission'[q] = sq
                    /\ result'[q].err = "Ok" =>
                          /\ sq_mem'[q] = [sq_mem[q] EXCEPT ![sq.tail + 1] = entry]
                          /\ submission'[q] = [sq EXCEPT !.tail = next]
                          /\ result'[q].value = next
              /\ (calls' # calls /\ q \in handles /\ submission'[q] # sq) =>
                    /\ sq_mem'[q] = [sq_mem[q] EXCEPT ![sq.tail + 1] = entry]
                    /\ submission'[q] = [sq EXCEPT !.tail = next]
                    /\ doorbell'[SQyTDBL(q)] = next]_vars

\* submit_checked has just returned the tail that wrapped to slot 0
C29_Witness ==
    \E q \in IoIds :
        /\ result[q] = Returned("submit_checked", "Ok", 0, 0)
        /\ submission[q].tail = 0
        /\ submission[q].len = 3
        /\ sq_mem[q][3].command_id = 2


RECURSIVE complete_times(_, _)
complete_times(cq, n) == IF n = 0 THEN cq ELSE complete(complete_times(cq, n - 1))

\* C31: when the device has posted n entries from the head on, 1 <= n <= N,
\* complete_n(n) leaves head and expected phase as n successful complete()
\* calls do, each of which finds its entry; it returns the entry the n-th
\* of them returns, with the same new head, and as prev the head it
\* started from.
C31_CompleteN ==
    [][(completions'[1] # completions[1] /\ call'[1].op = "complete_n") =>
          LET cq == completion[1]
              n == call'[1].n
          IN  /\ n >= 1 /\ n <= cq.len
              /\ Pending >= n
              /\ \A i \in 0..(n - 1) : complete_ok(complete_times(cq, i), cq_mem[1])
              /\ completion'[1] = complete_times(cq, n)
              /\ result'[1].value = HeadEntry(complete_times(cq, n - 1), cq_mem[1]).command_id
              /\ result'[1].len = complete_times(cq, n).head
              /\ call'[1].step = cq.head]_vars

\* complete_n(3) has reaped a whole ring of 3 in one call, from head 1
C31_Witness ==
    /\ call[1].op = "complete_n"
    /\ call[1].n = 3
    /\ call[1].step = 1
    /\ completion[1] = [head |-> 1, phase |-> FALSE, len |-> 3]


\* C32: for every doorbell stride and queue id y, the SQ tail doorbell is
\* written at offset 0x1000 + 2y * (4 << DSTRD) and the CQ head doorbell at
\* 0x1000 + (2y + 1) * (4 << DSTRD), with no overflow and no truncation;
\* the offset read() and write() use for the tail doorbell is the one
\* computed at creation; and no other queue has a doorbell at either offset.
C32_DoorbellAddresses ==
    call[0].op = "doorbell" =>
        LET y == call[0].queue_id
            stride == call[0].n
            offsets == result[0].value
        IN  /\ offsets.sq = DoorbellBase + (2 * y) * (4 * (2 ^ stride))
            /\ offsets.cq = DoorbellBase + (2 * y + 1) * (4 * (2 ^ stride))
            /\ offsets.sq = offsets.stored_sq
            /\ offsets.cq # offsets.sq
            /\ \A z \in QueueIds :
                  (z # y /\ z < 2 ^ (27 - stride)) =>
                      {WrittenOffset(stride, 2 * z), WrittenOffset(stride, 2 * z + 1)}
                          \cap {offsets.sq, offsets.cq} = {}


\* C33: for every CAP.MQES that initialization accepts, the value written
\* to AQA has size - 1 of the admin submission queue in bits 0..11 and
\* size - 1 of the admin completion queue in bits 16..27, size being the
\* capacity of the admin rings, and no bit set in bits 12..15 and 28..31.
C33_AqaFields ==
    (call[0].op = "aqa" /\ result[0].err = "Ok") =>
        LET value == result[0].value
            size == result[0].len
        IN  /\ size = call[0].n + 1
            /\ value % 4096 = size - 1
            /\ (value \div U16) % 4096 = size - 1
            /\ (value \div 4096) % 16 = 0
            /\ value \div (2 ^ 28) = 0


\* C34: for every buffer read() and write() accept, the command they submit
\* has cdw12 = buffer length / block size - 1, a value in 0..65535 reached
\* with no underflow and no truncation, cdw10 and cdw11 the low and the
\* high word of the logical block address, and as data pointers PRP1 of
\* the container and its PRP2, or 0 when it has none.
C34_CommandFields ==
    (call[0].op \in {"read", "write"} /\ call[0].prp # "none") =>
        /\ result[0].err = "Ok"
        /\ LET entry == result[0].value
               number_of_blocks == call[0].len \div BlockSize
           IN  /\ entry.cdw12 = number_of_blocks - 1
               /\ entry.cdw12 \in 0..(U16 - 1)
               /\ entry.cdw10 = call[0].data.low
               /\ entry.cdw11 = call[0].data.high
               /\ entry.data_pointer[1] = call[0].container.prp_1
               /\ entry.data_pointer[2] =
                     (IF call[0].prp = "One" THEN 0 ELSE call[0].container.prp_2)


\* C35: with a controller that eventually posts the completion of every
\* command whose tail doorbell was rung and eventually changes CSTS.RDY
\* after CC.EN changed, new(), every admin submit_and_complete() and every
\* read() and write() eventually return; and no complete_spin() returns
\* while the entry at the head of its completion queue lacks the expected
\* phase: there is no timeout.
Running(position) == position \notin {"idle", "failed", "panicked"}
C35_Returns ==
    /\ \A q \in Q : Running(pc[q]) ~> ~Running(pc[q])
    /\ [][/\ (pc[0] = "spin" /\ pc'[0] # "spin") => AdminReaped
          /\ \A q \in IoIds : (pc[q] = "wait" /\ pc'[q] # "wait") =>
                                  complete_ok(completion[q], cq_mem[q])]_vars
\* new() has returned Ok and a read() or write() has returned
C35_Witness ==
    /\ result[0].op \in {"new", "create"}
    /\ \E q \in IoIds : result[q].op \in {"read", "write"} /\ result[q].err = "Ok"
                          /\ pc[q] = "idle"


\* C36: whenever no admin command is in progress, after any number of
\* admin commands, the admin submission ring has head = tail: is_empty()
\* is true and is_full() is false.
C36_AdminSqEmpty ==
    (pc[0] = "idle" /\ submission[0] # Absent) =>
        /\ submission[0].head = submission[0].tail
        /\ is_empty(submission[0])
        /\ ~is_full(submission[0])


\* C37: between calls of create_io_queue_pair and delete_io_queue_pair, with
\* a device that may fail any admin command, the live ids are exactly the
\* ids for which the device holds an I/O completion queue or an I/O
\* submission queue.
DeviceHeld == {q \in IoIds : ctrl.cq[q].exists \/ ctrl.sq[q].exists}
C37_LiveIsDeviceHeld ==
    pc[0] = "idle" => Range(io_queue_pair_ids) = DeviceHeld


\* C38: when prp::allocate returns an error, whichever call of the
\* allocator failed, none of the PRP list pages allocated during the call
\* remains allocated.
C38_NoListPageHeld ==
    (result[0].op = "prp_allocate" /\ result[0].err # "Ok") => allocated.prp[1] = 0


\* C39: with a device that processes each submission queue in order, the
\* completion entry a read(), a write() or an admin submit_and_complete()
\* reaps is the completion of the command the same call submitted: it
\* carries the command_id the call wrote, it is the last entry the device
\* posted and the device has consumed the queue up to that command; also
\* after calls that ended in IoCompletionQueueFailure.
LastSubmitted(q) == sq_mem[q][PrevIndex(submission[q].tail, submission[q].len) + 1]
C39_OwnCompletion ==
    \A q \in Q : pc[q] = "ack" =>
        /\ PrevEntry(q).command_id = LastSubmitted(q).command_id
        /\ completion[q].head = ctrl.cq[q].tail
        /\ ctrl.sq[q].head = submission[q].tail
\* a read() or write() has reaped its completion on a queue pair whose
\* previous call ended in IoCompletionQueueFailure
C39_Witness ==
    \E q \in IoIds : /\ pc[q] = "ack"
                      /\ result[q].err = "IoCompletionQueueFailure"
                      /\ PrevEntry(q).command_id = 1


\* C40: with two live I/O queue pairs, each operated by one thread, in
\* every interleaving of the steps of their reads and writes and of the
\* device's completions, no step on one pair changes the rings, the
\* doorbells, the call in progress or the result of the other, and whenever
\* a pair is between calls its rings, its doorbells and its last result
\* are what the pair's own calls alone determine: tail, both heads and the
\* phase follow from the number of its own completed commands, and the
\* result is the status of its own completion.
PairState(q) ==
    <<submission[q], completion[q], sq_mem[q], cq_mem[q], doorbell[SQyTDBL(q)],
      doorbell[CQyHDBL(q)], ctrl.sq[q], ctrl.cq[q], pc[q], call[q], result[q]>>
PairAlone(q) ==
    LET len == completion[q].len
    IN  /\ submission[q].tail = completions[q] % len
        /\ submission[q].head = submission[q].tail
        /\ completion[q].head = completions[q] % len
        /\ completion[q].phase = ((completions[q] \div len) % 2 = 0)
        /\ doorbell[SQyTDBL(q)] = submission[q].tail
        /\ doorbell[CQyHDBL(q)] = completion[q].head
        /\ completions[q] > 0 =>
              /\ PrevEntry(q).command_id = (completions[q] - 1) % len
              /\ PrevEntry(q).sq_id = q
              /\ (result[q].err = "Ok") = (PrevEntry(q).status \div 2 = 0)
=============================================================================
